---- MODULE Spec2Model ----
(***************************************************************************)
(* Model of the hate-speech moderation pipeline of app/ml_model.py:        *)
(* load_dataset, combine_datasets, the methods of HateSpeechDetector and   *)
(* the script under __main__; and of the HTTP API of app/routers (jobs,    *)
(* posts, users, auth) over the Motor collections, one step per await on a *)
(* collection.                                                             *)
(*                                                                         *)
(* Text is a sequence of one-character strings.  A missing value (pandas   *)
(* NaN / Python None) is the empty sequence NaN: read_csv turns an empty   *)
(* field into NaN, so no present cell is ever the empty sequence.          *)
(* A number is a pair <<m, e>> standing for m / 10^e with no trailing zero *)
(* in m when e > 0, so two numbers are equal exactly when their pairs are. *)
(***************************************************************************)
EXTENDS Integers, Sequences, FiniteSets, TLC

VARIABLES
    file,          \* load_dataset: what lies at csv_path
    loadRes,       \* load_dataset: what the call returned or raised
    fs,            \* combine_datasets: path -> what lies at that path
    csv_paths,     \* combine_datasets: the argument
    i,             \* combine_datasets: 1-based position of the for loop
    all_datasets,  \* combine_datasets: frames loaded so far
    warnings,      \* combine_datasets: paths reported by a Warning line
    combRes,       \* combine_datasets: what the call returned or raised
    use_spell_check, \* HateSpeechDetector.use_spell_check
    corrector_ok,  \* environment: TextBlob(text).correct() runs without raising
    text,          \* preprocess_text: the argument of the first call
    out,           \* preprocess_text: result of the first call
    out2,          \* preprocess_text: result of the call on that result
    vectorizer,    \* HateSpeechDetector.vectorizer
    model,         \* HateSpeechDetector.model
    learned,       \* environment: per variant, the last data fitted and what fit learned
    ret,           \* the last call on the detector: what it raised or returned
    calls,         \* fit and train calls made on the detector so far
    main_df,       \* __main__: df, the corpus, with processed_text once normalized
    X_train,       \* __main__: processed texts of the training part
    X_test,        \* __main__: processed texts of the test part
    y_train,       \* labels of the training part
    y_test,        \* __main__: labels of the test part
    X_train_features, \* the matrix returned by prepare_features(fit=True)
    X_test_features,  \* __main__: the matrix of the test part
    model_results, \* __main__: variant name -> accuracy
    best_model,    \* __main__: the name selected
    users_collection, \* database["users"]: _id -> document
    jobs_collection,  \* database["jobs"]: _id -> document
    posts_collection, \* database["posts"]: _id -> document
    object_ids,    \* number of ObjectIds the database has generated
    requests,      \* requests in flight: what each handler holds at its await
    response,      \* the last response sent, with the request it answers
    pc             \* position of the running scenario

vars == <<file, loadRes, fs, csv_paths, i, all_datasets, warnings,
          combRes, use_spell_check, corrector_ok, text, out, out2,
          vectorizer, model, learned, ret, calls,
          main_df, X_train, X_test, y_train, y_test, X_train_features,
          X_test_features, model_results, best_model,
          users_collection, jobs_collection, posts_collection, object_ids,
          requests, response, pc>>

loadVars == <<file, loadRes>>
combVars == <<fs, csv_paths, i, all_datasets, warnings, combRes>>
normVars == <<use_spell_check, corrector_ok, text, out, out2>>
detVars == <<vectorizer, model, learned, ret, calls>>
pipeVars == <<main_df, X_train, X_test, y_train, y_test, X_train_features,
              X_test_features, model_results, best_model>>
apiVars == <<users_collection, jobs_collection, posts_collection, object_ids,
             requests, response>>

(***************************************************************************)
(* Bounds                                                                  *)
(***************************************************************************)
MaxRows == 2      \* rows of a table given to load_dataset
MaxSrcRows == 2   \* rows of a table given to combine_datasets
MaxPaths == 2     \* length of csv_paths
MaxFrags == 3     \* fragments a text given to preprocess_text is built from
MaxCalls == 3     \* fit and train calls made on one detector
MaxInFlight == 2  \* requests the API handles at the same time
MaxDocs == 1      \* documents insert_one adds to a collection in one scenario
MaxUsers == 2     \* users register adds in one scenario

NaN == <<>>
NoValue == [none |-> TRUE]

RECURSIVE Flatten(_)
Flatten(ss) == IF ss = <<>> THEN <<>> ELSE Head(ss) \o Flatten(Tail(ss))

SeqsUpTo(S, n) == UNION {[1..k -> S] : k \in 0..n}

Range(s) == {s[k] : k \in DOMAIN s}

(***************************************************************************)
(* pandas.read_csv and pandas.to_numeric, as load_dataset uses them        *)
(***************************************************************************)
Digits == {"0", "1", "2", "3", "4", "5", "6", "7", "8", "9"}

DigitVal(c) ==
    CASE c = "0" -> 0 [] c = "1" -> 1 [] c = "2" -> 2 [] c = "3" -> 3
      [] c = "4" -> 4 [] c = "5" -> 5 [] c = "6" -> 6 [] c = "7" -> 7
      [] c = "8" -> 8 [] c = "9" -> 9

\* Field texts that read_csv reads as a missing value (default na_values).
NaValues == { <<>>, <<"N", "A">>, <<"n", "a", "n">>, <<"N", "a", "N">>,
              <<"n", "u", "l", "l">>, <<"N", "U", "L", "L">>,
              <<"N", "o", "n", "e">>, <<"N", "/", "A">> }

ReadCell(field) == IF field \in NaValues THEN NaN ELSE field

RECURSIVE Normalize(_, _)
Normalize(m, e) ==
    IF e > 0 /\ m % 10 = 0 THEN Normalize(m \div 10, e - 1) ELSE <<m, e>>

\* Digits with at most one decimal point, an optional leading sign.
RECURSIVE ParseDigits(_, _, _, _, _)
ParseDigits(s, m, e, dot, any) ==
    IF s = <<>> THEN (IF any THEN Normalize(m, e) ELSE NaN)
    ELSE IF Head(s) \in Digits
         THEN ParseDigits(Tail(s), 10 * m + DigitVal(Head(s)),
                          IF dot THEN e + 1 ELSE e, dot, TRUE)
    ELSE IF Head(s) = "." /\ ~dot THEN ParseDigits(Tail(s), m, e, TRUE, any)
    ELSE NaN

Negate(n) == IF n = NaN THEN NaN ELSE <<0 - n[1], n[2]>>

to_numeric_zero_on_error(cell) ==
    IF cell = NaN THEN NaN
    ELSE IF Head(cell) = "-" THEN Negate(ParseDigits(Tail(cell), 0, 0, FALSE, FALSE))
    ELSE IF ParseDigits(cell, 0, 0, FALSE, FALSE) = NaN THEN <<0, 0>>
    ELSE ParseDigits(cell, 0, 0, FALSE, FALSE)

\* pd.to_numeric(..., errors='coerce') on one cell: the number, or NaN.
to_numeric(cell) ==
    IF cell = NaN THEN NaN
    ELSE IF Head(cell) = "-" THEN Negate(ParseDigits(Tail(cell), 0, 0, FALSE, FALSE))
    ELSE ParseDigits(cell, 0, 0, FALSE, FALSE)

(***************************************************************************)
(* Exceptions: the class raised, and Python's subclass relation            *)
(***************************************************************************)
ExcBase(cls) ==
    CASE cls = "FileNotFoundError" -> "OSError"
      [] cls = "PermissionError" -> "OSError"
      [] cls = "OSError" -> "Exception"
      [] cls = "ParserError" -> "ValueError"
      [] cls = "EmptyDataError" -> "ValueError"
      [] cls = "UnicodeDecodeError" -> "ValueError"
      [] cls = "ValueError" -> "Exception"
      [] OTHER -> "Exception"

RECURSIVE IsInstance(_, _)
IsInstance(cls, of) ==
    \/ cls = of
    \/ cls # "Exception" /\ IsInstance(ExcBase(cls), of)

EmptyFrame == <<>>

Raised(cls, cause, log) ==
    [ok |-> FALSE, exc |-> cls, cause |-> cause, log |-> log, df |-> EmptyFrame]

Returned(df) ==
    [ok |-> TRUE, exc |-> "", cause |-> "", log |-> "", df |-> df]

(***************************************************************************)
(* load_dataset                                                            *)
(***************************************************************************)
TextAliases == <<"Content", "text", "Text">>
LabelAliases == <<"Label", "is_offensive", "label", "hate_speech">>

Str_Label == <<"L", "a", "b", "e", "l">>
Str_is_offensive == <<"i", "s", "_", "o", "f", "f", "e", "n", "s", "i", "v", "e">>

\* What pd.read_csv raises for a path that holds no table.
ReadError(kind) ==
    CASE kind = "missing" -> "FileNotFoundError"
      [] kind = "denied" -> "PermissionError"
      [] kind = "malformed" -> "ParserError"
      [] kind = "empty" -> "EmptyDataError"
      [] kind = "binary" -> "UnicodeDecodeError"

column_mapping_swapped(columns) ==
    [c \in columns |->
        IF c = "text" THEN "content"
        ELSE IF c = "Content" /\ "text" \notin columns THEN "content"
        ELSE IF c = "Text" /\ "text" \notin columns /\ "Content" \notin columns
             THEN "content"
        ELSE IF c = "is_offensive" THEN "labels"
        ELSE IF c = "Label" /\ "is_offensive" \notin columns THEN "labels"
        ELSE IF c = "label" /\ "Label" \notin columns /\ "is_offensive" \notin columns
             THEN "labels"
        ELSE IF c = "hate_speech" /\ "Label" \notin columns
                /\ "is_offensive" \notin columns /\ "label" \notin columns
             THEN "labels"
        ELSE c]

\* column_mapping as df.rename applies it: old name -> new name.
column_mapping(columns) ==
    LET textFrom ==
            IF "Content" \in columns THEN {"Content"}
            ELSE IF "text" \in columns THEN {"text"}
            ELSE IF "Text" \in columns THEN {"Text"}
            ELSE {}
        labelFrom ==
            IF "Label" \in columns THEN {"Label"}
            ELSE IF "is_offensive" \in columns THEN {"is_offensive"}
            ELSE IF "label" \in columns THEN {"label"}
            ELSE IF "hate_speech" \in columns THEN {"hate_speech"}
            ELSE {}
    IN  [c \in columns |->
            IF c \in textFrom THEN "content"
            ELSE IF c \in labelFrom THEN "labels"
            ELSE c]

RenamedColumns(columns) == {column_mapping(columns)[c] : c \in columns}

SchemaMissingBoth(columns) ==
    "content" \notin columns /\ "labels" \notin columns

\* The test of line 136 on the renamed columns.
SchemaMissing(columns) ==
    "content" \notin columns \/ "labels" \notin columns

\* pd.read_csv on a table: every field read, an NA field becoming NaN.
read_csv(f) ==
    [k \in DOMAIN f.rows |-> [c \in f.header |-> ReadCell(f.rows[k][c])]]

\* df[['content', 'labels']] of the renamed frame, with the row index kept.
SelectColumns(f) ==
    LET m == column_mapping(f.header)
        src(new) == CHOOSE c \in f.header : m[c] = new
        df == read_csv(f)
    IN  [k \in DOMAIN df |->
            [idx |-> k, content |-> df[k][src("content")], labels |-> df[k][src("labels")]]]

NotHeaderRow(r) == r.labels # Str_Label /\ r.labels # Str_is_offensive

CoerceLabel(r) == [r EXCEPT !.labels = to_numeric(r.labels)]

CoerceLabels(df) == [k \in DOMAIN df |-> CoerceLabel(df[k])]

NotMissing(r) == r.content # NaN /\ r.labels # NaN

\* Lines 112-151: the body of the try block.
LoadBody(f) ==
    IF f.kind # "table" THEN Raised(ReadError(f.kind), "", "")
    ELSE IF SchemaMissing(RenamedColumns(f.header)) THEN Raised("ValueError", "", "")
    ELSE IF ~({"content", "labels"} \subseteq RenamedColumns(f.header))
         THEN Raised("KeyError", "", "")
    ELSE Returned(SelectSeq(CoerceLabels(SelectSeq(SelectColumns(f), NotHeaderRow)),
                            NotMissing))

\* Lines 153-159: both handlers print and re-raise what they caught.
load_dataset(f) ==
    LET r == LoadBody(f)
    IN  IF r.ok THEN r
        ELSE IF IsInstance(r.exc, "FileNotFoundError")
             THEN [r EXCEPT !.log = "Error: File not found"]
        ELSE [r EXCEPT !.log = "Error loading dataset"]

(***************************************************************************)
(* combine_datasets                                                        *)
(***************************************************************************)
\* pd.concat(all_datasets, ignore_index=True): rows in source order, renumbered.
concat(frames) ==
    LET rows == Flatten(frames)
    IN  [k \in DOMAIN rows |-> [rows[k] EXCEPT !.idx = k]]

drop_duplicates_keep_last(df) ==
    LET keep(r) == \A j \in DOMAIN df : j > r.idx => df[j].content # r.content
    IN  SelectSeq(df, keep)

\* drop_duplicates(subset=['content'], keep='first'); df is indexed 1..Len(df).
drop_duplicates(df) ==
    LET keep(r) == \A j \in DOMAIN df : j < r.idx => df[j].content # r.content
    IN  SelectSeq(df, keep)

(***************************************************************************)
(* HateSpeechDetector.preprocess_text                                      *)
(***************************************************************************)
\* An argument of preprocess_text: na is pd.isna(text), repr is str(text).
PyNone == [na |-> TRUE, repr |-> <<"N", "o", "n", "e">>]
PyNaN == [na |-> TRUE, repr |-> <<"n", "a", "n">>]
PyStr(s) == [na |-> FALSE, repr |-> s]

UpperCase == <<"A", "B", "C", "D", "E", "F", "G", "H", "I", "J", "K", "L", "M",
               "N", "O", "P", "Q", "R", "S", "T", "U", "V", "W", "X", "Y", "Z">>
LowerCase == <<"a", "b", "c", "d", "e", "f", "g", "h", "i", "j", "k", "l", "m",
               "n", "o", "p", "q", "r", "s", "t", "u", "v", "w", "x", "y", "z">>

\* The character classes of the re module: \s, \d, \w.
IsSpace(c) == c \in {" ", "\t", "\n", "\r"}
IsDigit(c) == c \in Digits
IsWord(c) == c \in Range(LowerCase) \/ c \in Range(UpperCase) \/ IsDigit(c) \/ c = "_"

LowerChar(c) ==
    IF c \in Range(UpperCase)
    THEN LowerCase[CHOOSE k \in DOMAIN UpperCase : UpperCase[k] = c]
    ELSE c

\* str.lower()
Lower(s) == [k \in DOMAIN s |-> LowerChar(s[k])]

StartsWith(s, prefix) ==
    Len(s) >= Len(prefix) /\ SubSeq(s, 1, Len(prefix)) = prefix

NotSpace(c) == ~IsSpace(c)

\* Length of the longest prefix of s without whitespace: what \S+ takes.
NonSpaceLen(s) ==
    CHOOSE k \in 0..Len(s) :
        /\ \A j \in 1..k : NotSpace(s[j])
        /\ k = Len(s) \/ IsSpace(s[k + 1])

\* Length of the longest prefix of s of word characters: what \w+ takes.
WordLen(s) ==
    CHOOSE k \in 0..Len(s) :
        /\ \A j \in 1..k : IsWord(s[j])
        /\ k = Len(s) \/ ~IsWord(s[k + 1])

Skip(s, n) == SubSeq(s, n + 1, Len(s))

\* http\S+|www\S+|https\S+ matches at the head of s.
UrlAt(s) ==
    \/ StartsWith(s, <<"h", "t", "t", "p">>) /\ Len(s) > 4 /\ NotSpace(s[5])
    \/ StartsWith(s, <<"w", "w", "w">>) /\ Len(s) > 3 /\ NotSpace(s[4])

\* re.sub(r'http\S+|www\S+|https\S+', '', text)
RECURSIVE RemoveUrls(_)
RemoveUrls(s) ==
    IF s = <<>> THEN <<>>
    ELSE IF UrlAt(s) THEN RemoveUrls(Skip(s, NonSpaceLen(s)))
    ELSE <<Head(s)>> \o RemoveUrls(Tail(s))

\* @\w+|#\w+ matches at the head of s.
MentionAt(s) == Head(s) \in {"@", "#"} /\ Len(s) > 1 /\ IsWord(s[2])

\* re.sub(r'@\w+|#\w+', '', text)
RECURSIVE RemoveMentions(_)
RemoveMentions(s) ==
    IF s = <<>> THEN <<>>
    ELSE IF MentionAt(s) THEN RemoveMentions(Skip(Tail(s), WordLen(Tail(s))))
    ELSE <<Head(s)>> \o RemoveMentions(Tail(s))

\* Length of the run of Head(s) that s starts with.
RunLength(s) ==
    CHOOSE k \in 1..Len(s) :
        /\ \A j \in 1..k : s[j] = s[1]
        /\ k = Len(s) \/ s[k + 1] # s[1]

\* re.sub(r'(\w)\1{2,}', r'\1\1', text)
RECURSIVE CollapseRuns(_)
CollapseRuns(s) ==
    IF s = <<>> THEN <<>>
    ELSE IF IsWord(Head(s)) /\ RunLength(s) >= 3
         THEN <<Head(s), Head(s)>> \o CollapseRuns(Skip(s, RunLength(s)))
    ELSE <<Head(s)>> \o CollapseRuns(Tail(s))

\* re.sub(r'[^\w\s]', ' ', text)
ReplacePunctuation(s) ==
    [k \in DOMAIN s |-> IF IsWord(s[k]) \/ IsSpace(s[k]) THEN s[k] ELSE " "]

\* re.sub(r'\d+', '', text)
RemoveDigits(s) == SelectSeq(s, LAMBDA c : ~IsDigit(c))

\* text.split(): the maximal runs of non-space characters (this is also what
\* re.sub(r'\s+', ' ', text).strip() followed by split() yields).
RECURSIVE Split(_)
Split(s) ==
    IF s = <<>> THEN <<>>
    ELSE IF IsSpace(Head(s)) THEN Split(Tail(s))
    ELSE <<SubSeq(s, 1, NonSpaceLen(s))>> \o Split(Skip(s, NonSpaceLen(s)))

\* ' '.join(words)
RECURSIVE Join(_)
Join(words) ==
    IF words = <<>> THEN <<>>
    ELSE IF Len(words) = 1 THEN Head(words)
    ELSE Head(words) \o <<" ">> \o Join(Tail(words))

\* re.sub(r'\s+', ' ', text).strip()
SquashSpaces(s) == Join(Split(s))

\* Some of stopwords.words('english').
stop_words == { <<"t", "h", "e">>, <<"a", "n", "d">>, <<"a", "r", "e">>,
               <<"w", "a", "s">>, <<"h", "a", "s">>, <<"n", "o", "t">>,
               <<"a">>, <<"i">>, <<"s">>, <<"t">>, <<"a", "s">>, <<"a", "t">> }

\* WordNetLemmatizer.lemmatize(word): the shortest WordNet noun form of the
\* word, the word itself when WordNet has none.
lemmatize(word) ==
    CASE word = <<"c", "a", "t", "s">> -> <<"c", "a", "t">>
      [] word = <<"g", "a", "s">> -> <<"g", "a">>
      [] word = <<"a", "x", "e", "s">> -> <<"a", "x">>
      [] OTHER -> word

\* Word(w).correct(): the likeliest known word near w, w itself when known.
CorrectWord(word) ==
    CASE word = <<"t", "e", "h">> -> <<"t", "h", "e">>
      [] word = <<"h", "a", "a", "t", "e">> -> <<"h", "a", "t", "e">>
      [] OTHER -> word

\* str(TextBlob(text).correct()): every \w+ token corrected, the rest kept.
RECURSIVE TextBlobCorrect(_)
TextBlobCorrect(s) ==
    IF s = <<>> THEN <<>>
    ELSE IF IsWord(Head(s))
         THEN CorrectWord(SubSeq(s, 1, WordLen(s))) \o TextBlobCorrect(Skip(s, WordLen(s)))
    ELSE <<Head(s)>> \o TextBlobCorrect(Tail(s))

correct_spelling_empty_on_error(s, blob_ok) ==
    IF blob_ok THEN TextBlobCorrect(s) ELSE <<>>

\* Lines 32-37: the corrected text, the text itself when the corrector raised.
correct_spelling(s, blob_ok) ==
    IF blob_ok THEN TextBlobCorrect(s) ELSE s

\* Lines 57-59: the words kept, lemmatized.
KeepWord(word) == word \notin stop_words /\ Len(word) > 2

LemmatizeAll(words) == [k \in DOMAIN words |-> lemmatize(words[k])]

\* Lines 42-61: the steps after the isna test.
Clean(s, spell, blob_ok) ==
    LET t1 == Lower(s)
        t2 == RemoveMentions(RemoveUrls(t1))
        t3 == ReplacePunctuation(CollapseRuns(t2))
        t4 == IF spell THEN correct_spelling(t3, blob_ok) ELSE t3
        t5 == SquashSpaces(RemoveDigits(t4))
    IN  Join(LemmatizeAll(SelectSeq(Split(t5), KeepWord)))

preprocess_text_no_isna(arg, spell, blob_ok) == Clean(arg.repr, spell, blob_ok)

\* preprocess_text(text) of a detector whose use_spell_check is spell, in an
\* environment where the corrector runs (blob_ok) or raises.
preprocess_text(arg, spell, blob_ok) ==
    IF arg.na THEN <<>> ELSE Clean(arg.repr, spell, blob_ok)

(***************************************************************************)
(* TfidfVectorizer, as prepare_features configures and uses it             *)
(***************************************************************************)
max_features == 5000
min_df == 2
\* max_df = 0.8, as the fraction max_df_num / max_df_den
max_df_num == 4
max_df_den == 5

Zero == <<0, 0>>
One == <<1, 0>>
Two == <<2, 0>>

\* The maximal runs of word characters of s.
RECURSIVE WordRuns(_)
WordRuns(s) ==
    IF s = <<>> THEN <<>>
    ELSE IF IsWord(Head(s))
         THEN <<SubSeq(s, 1, WordLen(s))>> \o WordRuns(Skip(s, WordLen(s)))
    ELSE WordRuns(Tail(s))

\* The default analyzer: lowercase, then token_pattern (?u)\b\w\w+\b.
Tokens(doc) == SelectSeq(WordRuns(Lower(doc)), LAMBDA w : Len(w) >= 2)

Bigrams(toks) ==
    [k \in 1..(Len(toks) - 1) |-> toks[k] \o <<" ">> \o toks[k + 1]]

\* ngram_range=(1, 2): the terms of a document, with repetition.
Ngrams(doc) == Tokens(doc) \o Bigrams(Tokens(doc))

\* The terms of every text: what the analyzer gives fit and transform.
Analyze(texts) == [k \in DOMAIN texts |-> Ngrams(texts[k])]

\* Occurrences of term t in the terms of one document.
TermCount(grams, t) == Cardinality({k \in DOMAIN grams : grams[k] = t})

\* Documents in which term t occurs.
DocFreq(docs, t) == Cardinality({k \in DOMAIN docs : \E j \in DOMAIN docs[k] : docs[k][j] = t})

AllTerms(docs) == UNION {Range(docs[k]) : k \in DOMAIN docs}

\* Terms kept by min_df and max_df.
KeptTerms(docs) ==
    {t \in AllTerms(docs) :
        LET n == DocFreq(docs, t)
        IN  n >= min_df /\ max_df_den * n <= max_df_num * Len(docs)}

\* Order of the characters, for the sorted vocabulary.
CharOrder == <<" ">> \o <<"0", "1", "2", "3", "4", "5", "6", "7", "8", "9">>
             \o UpperCase \o <<"_">> \o LowerCase

CharCode(c) == CHOOSE k \in DOMAIN CharOrder : CharOrder[k] = c

RECURSIVE TermLess(_, _)
TermLess(a, b) ==
    IF a = <<>> THEN b # <<>>
    ELSE IF b = <<>> THEN FALSE
    ELSE IF Head(a) = Head(b) THEN TermLess(Tail(a), Tail(b))
    ELSE CharCode(Head(a)) < CharCode(Head(b))

\* vocabulary_: term -> column, the terms in sorted order.
ColumnOf(vocabulary, t) == 1 + Cardinality({u \in vocabulary : TermLess(u, t)})

TermAt(vocabulary, col) == CHOOSE t \in vocabulary : ColumnOf(vocabulary, t) = col

\* The vectorizer just constructed: no vocabulary_, no idf_.
Unfitted == [fitted |-> FALSE, vocabulary |-> {}, idf |-> <<>>]

NoFeatures == [vocabulary |-> {}, idf |-> <<>>, rows |-> <<>>]

\* transform: one row per text, the count of each vocabulary term in it; the
\* weights are these counts scaled by the idf the matrix carries.
Transform(vec, docs) ==
    [vocabulary |-> vec.vocabulary,
     idf |-> vec.idf,
     rows |-> [k \in DOMAIN docs |->
                  [t \in vec.vocabulary |-> TermCount(docs[k], t)]]]

\* Why fit_transform raises, "" when it does not.
FitError(docs) ==
    IF AllTerms(docs) = {} THEN "ValueError"
    ELSE IF max_df_num * Len(docs) < max_df_den * min_df THEN "ValueError"
    ELSE IF KeptTerms(docs) = {} THEN "ValueError"
    ELSE ""

\* The fitted vectorizer: idf_[t] is ln(idf[t][1] / idf[t][2]) + 1.
Fitted(docs) ==
    LET kept == KeptTerms(docs)
    IN  [fitted |-> TRUE,
         vocabulary |-> kept,
         idf |-> [t \in kept |-> <<1 + Len(docs), 1 + DocFreq(docs, t)>>]]

Outcome(vec, exc, features) == [vectorizer |-> vec, exc |-> exc, features |-> features]

prepare_features_strict(vec, texts, fit) ==
    LET docs == Analyze(texts)
        err == FitError(docs)
        new == Fitted(docs)
    IN  IF fit
        THEN IF err # "" THEN Outcome(Unfitted, err, NoFeatures)
             ELSE Outcome(new, "", Transform(new, docs))
        ELSE IF vec = NoValue THEN Outcome(vec, "AttributeError", NoFeatures)
        ELSE IF ~vec.fitted THEN Outcome(vec, "NotFittedError", NoFeatures)
        ELSE IF \E k \in DOMAIN docs : Range(docs[k]) \cap vec.vocabulary = {}
        THEN Outcome(vec, "KeyError", NoFeatures)
        ELSE Outcome(vec, "", Transform(vec, docs))

prepare_features_refit(vec, texts, fit) ==
    LET docs == Analyze(texts)
        err == FitError(docs)
        new == Fitted(docs)
    IN  IF err # "" THEN Outcome(Unfitted, err, NoFeatures)
        ELSE Outcome(new, "", Transform(new, docs))

\* Lines 63-74: the vectorizer after the call, what was raised, what was returned.
prepare_features(vec, texts, fit) ==
    LET docs == Analyze(texts)
        err == FitError(docs)
        new == Fitted(docs)
    IN  IF fit
        THEN IF err # "" THEN Outcome(Unfitted, err, NoFeatures)
             ELSE Outcome(new, "", Transform(new, docs))
        ELSE IF vec = NoValue THEN Outcome(vec, "AttributeError", NoFeatures)
        ELSE IF ~vec.fitted THEN Outcome(vec, "NotFittedError", NoFeatures)
        ELSE Outcome(vec, "", Transform(vec, docs))

(***************************************************************************)
(* The classifier: train, predict, evaluate                                *)
(***************************************************************************)
\* Keys of the models dictionary of train.
Kinds == {"logistic", "naive_bayes"}

Variant_no_fallback(model_type) ==
    IF model_type \in Kinds THEN model_type ELSE "naive_bayes"

\* Line 82: models.get(model_type, models['logistic']).
Variant(model_type) == IF model_type \in Kinds THEN model_type ELSE "logistic"

\* What fit can learn from X and y is not computed here: any decision that
\* reads one column of the matrix and answers with labels seen in y.
Rules(X, y) ==
    [default : Range(y), hit : Range(y), col : 1..Cardinality(X.vocabulary)]

NoRule == [default |-> Zero, hit |-> Zero, col |-> 0]

\* Why estimator.fit raises, "" when it does not.
ModelFitError(kind, X, y) ==
    IF Len(X.rows) = 0 \/ Len(X.rows) # Len(y) THEN "ValueError"
    ELSE IF kind = "logistic" /\ Cardinality(Range(y)) < 2 THEN "ValueError"
    ELSE ""

\* The estimator after fit; a failed fit leaves the new estimator unfitted.
Estimator(kind, X, y, rule) ==
    IF ModelFitError(kind, X, y) # ""
    THEN [kind |-> kind, fitted |-> FALSE, n_features_in |-> 0, classes |-> {},
          rule |-> NoRule, on |-> [vocabulary |-> {}, idf |-> <<>>]]
    ELSE [kind |-> kind, fitted |-> TRUE,
          n_features_in |-> Cardinality(X.vocabulary), classes |-> Range(y),
          rule |-> rule, on |-> [vocabulary |-> X.vocabulary, idf |-> X.idf]]

\* A call of train that passes no model_type.
Omitted == "<omitted>"

\* Line 76: model_type='logistic' when the caller passes none.
ModelType(arg) == IF arg = Omitted THEN "logistic" ELSE arg

\* Lines 76-83: the model after the call and what was raised.
train(X, y, arg, rule) ==
    [model |-> Estimator(Variant(ModelType(arg)), X, y, rule),
     exc |-> ModelFitError(Variant(ModelType(arg)), X, y)]

\* The decision of a fitted estimator on one row of a matrix.
Classify(m, X, k) ==
    IF X.rows[k][TermAt(X.vocabulary, m.rule.col)] > 0 THEN m.rule.hit
    ELSE m.rule.default

\* Why estimator.predict raises, "" when it does not; None has no predict.
ModelPredictError(m, X) ==
    IF m = NoValue THEN "AttributeError"
    ELSE IF ~m.fitted THEN "NotFittedError"
    ELSE IF Len(X.rows) = 0 THEN "ValueError"
    ELSE IF Cardinality(X.vocabulary) # m.n_features_in THEN "ValueError"
    ELSE ""

ModelPredict(m, X) == [k \in DOMAIN X.rows |-> Classify(m, X, k)]

\* The attributes sklearn's LogisticRegression and MultinomialNB answer to,
\* as far as predict asks.
EstimatorAttributes == {"fit", "predict", "predict_proba", "predict_log_proba", "score"}

HasAttr(m, name) == m # NoValue /\ name \in EstimatorAttributes

\* predict_proba: per row, the class the larger probability goes to.
PredictProba(m, X) == [k \in DOMAIN X.rows |-> [argmax |-> Classify(m, X, k)]]

PyNoneValue == [py_none |-> TRUE]

\* The argument of predict: one str, or a list of values.
OneText(s) == [is_str |-> TRUE, str |-> s, items |-> <<>>]
TextList(items) == [is_str |-> FALSE, str |-> <<>>, items |-> items]

\* "for text in texts": a list gives its items, a str its characters.
Iterate(texts) ==
    IF texts.is_str THEN [k \in DOMAIN texts.str |-> PyStr(<<texts.str[k]>>)]
    ELSE texts.items

AsList_no_wrap(texts) == texts

\* Lines 86-87: a single string becomes a list of one.
AsList(texts) == IF texts.is_str THEN TextList(<<PyStr(texts.str)>>) ELSE texts

Prediction(exc, processed, predictions, probabilities) ==
    [exc |-> exc, processed_texts |-> processed,
     predictions |-> predictions, probabilities |-> probabilities]

predict_uncorrected(vec, m, texts, spell, blob_ok) ==
    LET items == Iterate(AsList(texts))
        processed_texts ==
            [k \in DOMAIN items |-> preprocess_text(items[k], FALSE, blob_ok)]
        f == prepare_features(vec, processed_texts, FALSE)
        err == ModelPredictError(m, f.features)
    IN  IF f.exc # "" THEN Prediction(f.exc, processed_texts, <<>>, PyNoneValue)
        ELSE IF err # "" THEN Prediction(err, processed_texts, <<>>, PyNoneValue)
        ELSE Prediction("", processed_texts, ModelPredict(m, f.features), PyNoneValue)

\* A value that is neither a str nor missing: the int 7.
PyInt == [na |-> FALSE, repr |-> <<"7">>, type |-> "int"]

\* Line 43: text.lower() raises on a value that is no str; "" when it is one.
PreprocessError(arg) ==
    IF ~arg.na /\ "type" \in DOMAIN arg THEN "AttributeError" ELSE ""

\* Lines 85-94: what predict raises or returns; it assigns no attribute.
predict(vec, m, texts, spell, blob_ok) ==
    LET items == Iterate(AsList(texts))
        processed_texts ==
            [k \in DOMAIN items |-> preprocess_text(items[k], spell, blob_ok)]
        f == prepare_features(vec, processed_texts, FALSE)
        err == ModelPredictError(m, f.features)
    IN  IF \E k \in DOMAIN items : PreprocessError(items[k]) # ""
        THEN Prediction("AttributeError", <<>>, <<>>, PyNoneValue)
        ELSE IF f.exc # "" THEN Prediction(f.exc, processed_texts, <<>>, PyNoneValue)
        ELSE IF err # "" THEN Prediction(err, processed_texts, <<>>, PyNoneValue)
        ELSE Prediction("", processed_texts, ModelPredict(m, f.features),
                        IF HasAttr(m, "predict_probability")
                        THEN [value |-> PredictProba(m, f.features)]
                        ELSE PyNoneValue)

Correct(predictions, y) == Cardinality({k \in DOMAIN y : predictions[k] = y[k]})

\* accuracy_score, as the fraction <<correct, total>>.
accuracy_score(y, predictions) == <<Correct(predictions, y), Len(y)>>

\* classification_report with two target_names needs two labels in all.
ReportError(y, predictions) ==
    IF Cardinality(Range(y) \cup Range(predictions)) # Cardinality({"Normal", "Hate Speech"})
    THEN "ValueError" ELSE ""

\* Lines 96-106: what evaluate raises, and the accuracy it prints.
evaluate(m, X, y) ==
    LET predictions == ModelPredict(m, X)
    IN  IF ModelPredictError(m, X) # ""
        THEN [exc |-> ModelPredictError(m, X), accuracy |-> <<0, 0>>]
        ELSE IF Len(X.rows) # Len(y)
        THEN [exc |-> "ValueError", accuracy |-> <<0, 0>>]
        ELSE [exc |-> ReportError(y, predictions),
              accuracy |-> accuracy_score(y, predictions)]

(***************************************************************************)
(* Inputs                                                                  *)
(***************************************************************************)
NoFile(kind) == [kind |-> kind, header |-> {}, rows |-> <<>>]

Table(header, rows) == [kind |-> "table", header |-> header, rows |-> rows]

BrokenFiles == {NoFile(k) : k \in {"missing", "denied", "malformed", "empty", "binary"}}

TextColumns == {"Content", "text", "Text", "content"}
LabelColumns == {"Label", "is_offensive", "label", "hate_speech", "labels"}

\* Headers: any aliases of a field, or the canonical name alone; optionally an
\* unrelated column.  A header never holds a canonical name next to an alias
\* of the same field (rename would then yield two columns of one label).
Headers ==
    {t \cup l \cup o :
        t \in SUBSET {"Content", "text", "Text"} \cup {{"content"}},
        l \in SUBSET {"Label", "is_offensive", "label", "hate_speech"} \cup {{"labels"}},
        o \in {{}, {"id"}}}

ColumnCells(c) ==
    IF c \in TextColumns THEN {<<"x">>, <<"y">>}
    ELSE IF c \in LabelColumns THEN {<<"0">>, <<"1">>}
    ELSE {<<"7">>}

\* One-row tables over every header, each column with its own cell.
ColumnTables ==
    UNION {{Table(h, <<r>>) :
                r \in {f \in [h -> {<<"x">>, <<"y">>, <<"0">>, <<"1">>, <<"7">>}] :
                            \A c \in h : f[c] \in ColumnCells(c)}} :
           h \in Headers}

ContentCells == {<<"o", "k">>, <<"b", "a", "d">>, <<>>, <<"N", "A">>}

LabelCells == {<<"1">>, <<"1", ".", "0">>, <<"0">>, <<"2">>, <<"0", ".", "5">>,
               <<"-", "1">>, <<"y", "e", "s">>, Str_Label, Str_is_offensive, <<>>}

\* Tables of up to MaxRows rows under the header text,label.
RowTables ==
    {Table({"text", "label"}, rows) :
        rows \in SeqsUpTo([text : ContentCells, label : LabelCells], MaxRows)}

LoadFiles == BrokenFiles \cup ColumnTables \cup RowTables

Paths == {"a.csv", "b.csv"}

SourceFiles ==
    {NoFile("missing"), NoFile("malformed"), Table({"text"}, <<>>)}
    \cup {Table({"text", "label"}, rows) :
            rows \in SeqsUpTo([text : {<<"x">>, <<"y">>}, label : {<<"0">>, <<"1">>}],
                              MaxSrcRows)}

(***************************************************************************)
(* Scenario: one call of load_dataset                                      *)
(***************************************************************************)
IdleComb ==
    /\ fs = NoValue /\ csv_paths = <<>> /\ i = 0 /\ all_datasets = <<>>
    /\ warnings = <<>> /\ combRes = NoValue

IdleLoad == file = NoValue /\ loadRes = NoValue

IdleApi ==
    /\ users_collection = NoValue /\ jobs_collection = NoValue
    /\ posts_collection = NoValue /\ object_ids = 0
    /\ requests = <<>> /\ response = NoValue

IdleDetector ==
    /\ vectorizer = NoValue /\ model = NoValue /\ learned = NoValue
    /\ ret = NoValue /\ calls = 0

IdlePipeline ==
    /\ main_df = NoValue /\ X_train = NoValue /\ X_test = NoValue
    /\ y_train = NoValue /\ y_test = NoValue /\ X_train_features = NoValue
    /\ X_test_features = NoValue /\ model_results = NoValue
    /\ best_model = NoValue

IdleNorm ==
    /\ use_spell_check = FALSE /\ corrector_ok = TRUE
    /\ text = NoValue /\ out = NoValue /\ out2 = NoValue

InitLoad ==
    /\ file \in LoadFiles
    /\ loadRes = NoValue
    /\ pc = "load"
    /\ IdleComb /\ IdleNorm /\ IdleDetector /\ IdlePipeline /\ IdleApi

CallLoadDataset ==
    /\ pc = "load"
    /\ loadRes' = load_dataset(file)
    /\ pc' = "loaded"
    /\ UNCHANGED <<file, combVars, normVars, detVars, pipeVars, apiVars>>

NextLoad == CallLoadDataset

SpecLoad == InitLoad /\ [][NextLoad]_vars

(***************************************************************************)
(* Scenario: preprocess_text, then preprocess_text on its result           *)
(***************************************************************************)
Fragments ==
    { <<"h", "t", "t", "p">>, <<"w", "w", "w">>, <<":", "/">>, <<"@">>, <<"#">>,
      <<" ">>, <<"1">>, <<"a">>, <<"a", "a">>, <<"A">>, <<"g", "a", "s">>,
      <<"t", "h", "e">>, <<"t", "e", "h">>, <<"s">> }

\* The texts made of up to MaxFrags fragments, and the two missing values.
Inputs ==
    {PyNone, PyNaN} \cup {PyStr(Flatten(fr)) : fr \in SeqsUpTo(Fragments, MaxFrags)}

InitNorm ==
    /\ use_spell_check \in BOOLEAN
    /\ corrector_ok \in (IF use_spell_check THEN BOOLEAN ELSE {TRUE})
    /\ text \in Inputs
    /\ out = NoValue
    /\ out2 = NoValue
    /\ pc = "norm"
    /\ IdleLoad /\ IdleComb /\ IdleDetector /\ IdlePipeline /\ IdleApi

Preprocess ==
    /\ pc = "norm"
    /\ out' = preprocess_text(text, use_spell_check, corrector_ok)
    /\ pc' = "normalized"
    /\ UNCHANGED <<use_spell_check, corrector_ok, text, out2, loadVars, apiVars, combVars, detVars, pipeVars>>

PreprocessAgain ==
    /\ pc = "normalized"
    /\ out2' = preprocess_text(PyStr(out), use_spell_check, corrector_ok)
    /\ pc' = "renormalized"
    /\ UNCHANGED <<use_spell_check, corrector_ok, text, out, loadVars, apiVars, combVars, detVars, pipeVars>>

NextNorm == Preprocess \/ PreprocessAgain

SpecNorm == InitNorm /\ [][NextNorm]_vars

(***************************************************************************)
(* Scenario: one call of combine_datasets                                  *)
(***************************************************************************)
InitCombine ==
    /\ fs \in [Paths -> SourceFiles]
    /\ csv_paths \in SeqsUpTo(Paths, MaxPaths)
    /\ i = 1
    /\ all_datasets = <<>>
    /\ warnings = <<>>
    /\ combRes = NoValue
    /\ pc = "loop"
    /\ IdleLoad /\ IdleNorm /\ IdleDetector /\ IdlePipeline /\ IdleApi

CombineLoadNoCatch ==
    /\ pc = "loop"
    /\ i <= Len(csv_paths)
    /\ LET r == load_dataset(fs[csv_paths[i]])
       IN  IF r.ok
           THEN /\ all_datasets' = Append(all_datasets, r.df)
                /\ i' = i + 1
                /\ UNCHANGED <<combRes, pc>>
           ELSE /\ combRes' = r
                /\ pc' = "done"
                /\ UNCHANGED <<all_datasets, i>>
    /\ UNCHANGED <<fs, csv_paths, warnings, loadVars, apiVars, normVars, detVars, pipeVars>>

\* Lines 169-177: one iteration of the for loop.
CombineLoad ==
    /\ pc = "loop"
    /\ i <= Len(csv_paths)
    /\ LET r == load_dataset(fs[csv_paths[i]])
       IN  IF r.ok
           THEN /\ all_datasets' = Append(all_datasets, r.df)
                /\ UNCHANGED warnings
           ELSE /\ warnings' = Append(warnings, csv_paths[i])
                /\ UNCHANGED all_datasets
    /\ i' = i + 1
    /\ UNCHANGED <<fs, csv_paths, combRes, pc, loadVars, apiVars, normVars, detVars, pipeVars>>

\* Lines 179-180.
CombineRaise ==
    /\ pc = "loop"
    /\ i > Len(csv_paths)
    /\ all_datasets = <<>>
    /\ combRes' = Raised("ValueError", "", "No datasets were successfully loaded!")
    /\ pc' = "done"
    /\ UNCHANGED <<fs, csv_paths, i, all_datasets, warnings, loadVars, apiVars, normVars, detVars, pipeVars>>

\* Lines 182-199.
CombineReturn ==
    /\ pc = "loop"
    /\ i > Len(csv_paths)
    /\ all_datasets # <<>>
    /\ combRes' = Returned(drop_duplicates(concat(all_datasets)))
    /\ pc' = "done"
    /\ UNCHANGED <<fs, csv_paths, i, all_datasets, warnings, loadVars, apiVars, normVars, detVars, pipeVars>>

NextCombine == CombineLoad \/ CombineRaise \/ CombineReturn

SpecCombine == InitCombine /\ [][NextCombine]_vars

(***************************************************************************)
(* Scenario: calls on one HateSpeechDetector, in any order                 *)
(***************************************************************************)
Bad == <<"b", "a", "d">>
Cat == <<"c", "a", "t">>
BadCat == Bad \o <<" ">> \o Cat

Cats == <<"c", "a", "t", "s">>
Teh == <<"t", "e", "h">>

\* A corpus of processed texts with its labels, as held by a caller.
Dataset(texts, labels) == [texts |-> texts, labels |-> labels]

\* Training sets: vocabulary {bad}; vocabulary {cat}; two terms and one
\* class; a label that load_dataset keeps although it is neither 0 nor 1;
\* too few documents for min_df and max_df.
Datasets ==
    { Dataset(<<Bad, Bad, Cat>>, <<One, One, Zero>>),
      Dataset(<<Cat, Bad, Cat>>, <<One, Zero, One>>),
      Dataset(<<BadCat, BadCat, Bad>>, <<Zero, Zero, Zero>>),
      Dataset(<<Bad, Bad, Cat>>, <<Two, Two, Zero>>),
      Dataset(<<Bad, Cat>>, <<One, Zero>>) }

\* Texts handed to prepare_features(fit=False); "" is a text without terms.
Queries == {<<>>, <<<<>>>>, <<Cat>>, <<BadCat, Cat>>}

\* Raw texts handed to predict: "cats" normalizes to "cat"; "teh" is corrected
\* to the stop word "the" and normalizes to "".
RawTexts == {Bad, Cats, Teh}

\* What train is passed as model_type: a key of its dictionary, "svm" which
\* is none, or nothing.
ModelNames == Kinds \cup {"svm", Omitted}

\* A list of raw texts, as handed to predict.
Batch(raw) == TextList([k \in DOMAIN raw |-> PyStr(raw[k])])

\* Arguments of predict: each raw text alone, lists of none to three, and a
\* list with a value that is no str between two texts.
PredictArgs ==
    {OneText(s) : s \in RawTexts}
    \cup {Batch(<<s>>) : s \in RawTexts}
    \cup {Batch(<<>>), Batch(<<Bad, Cats>>), Batch(<<Cats, Bad>>),
          Batch(<<Teh, Bad>>), Batch(<<Bad, Cats, Teh>>),
          TextList(<<PyStr(Bad), PyInt, PyStr(Cats)>>)}

NoPrediction == Prediction("", <<>>, <<>>, PyNoneValue)

Call(op, arg, exc, features, prediction, accuracy) ==
    [op |-> op, arg |-> arg, exc |-> exc, features |-> features,
     prediction |-> prediction, accuracy |-> accuracy]

\* The detector as HateSpeechDetector() constructs it.
InitDetector ==
    /\ use_spell_check = TRUE
    /\ corrector_ok = TRUE
    /\ text = NoValue /\ out = NoValue /\ out2 = NoValue
    /\ vectorizer = NoValue
    /\ model = NoValue
    /\ learned = [kind \in Kinds |-> NoValue]
    /\ ret = NoValue
    /\ calls = 0
    /\ main_df = NoValue /\ X_train = NoValue /\ X_test = NoValue
    /\ y_train = NoValue /\ y_test = NoValue /\ X_train_features = NoValue
    /\ X_test_features = NoValue /\ model_results = NoValue
    /\ best_model = NoValue
    /\ pc = "detector"
    /\ IdleLoad /\ IdleComb /\ IdleApi

\* What fit learns: the same as the last time for the same variant and data.
Learnable(kind, X, y) ==
    IF ModelFitError(kind, X, y) # "" THEN {NoRule}
    ELSE IF learned[kind] # NoValue /\ learned[kind].X = X /\ learned[kind].y = y
    THEN {learned[kind].rule}
    ELSE Rules(X, y)

\* detector.train(X, y, model_type=name), fit learning rule
Train(X, y, name, rule) ==
    LET r == train(X, y, name, rule)
    IN  /\ model' = r.model
        /\ ret' = Call("train", name, r.exc, NoFeatures, NoPrediction, <<0, 0>>)
        /\ UNCHANGED vectorizer

\* detector.prepare_features(texts, fit)
PrepareFeatures(texts, fit) ==
    LET r == prepare_features(vectorizer, texts, fit)
    IN  /\ vectorizer' = r.vectorizer
        /\ ret' = Call(IF fit THEN "fit" ELSE "transform", texts, r.exc,
                       r.features, NoPrediction, <<0, 0>>)
        /\ UNCHANGED model

\* detector.predict(texts)
Predict(texts) ==
    LET r == predict(vectorizer, model, texts, use_spell_check, corrector_ok)
    IN  /\ ret' = Call("predict", texts, r.exc, NoFeatures, r, <<0, 0>>)
        /\ vectorizer' = prepare_features(vectorizer, r.processed_texts, FALSE).vectorizer
        /\ UNCHANGED model

\* detector.evaluate(X, y)
Evaluate(X, y) ==
    LET r == evaluate(model, X, y)
    IN  /\ ret' = Call("evaluate", <<>>, r.exc, NoFeatures, NoPrediction, r.accuracy)
        /\ UNCHANGED <<vectorizer, model>>

OnDetector ==
    /\ pc = "detector"
    /\ UNCHANGED <<pc, loadVars, apiVars, combVars, normVars, learned, main_df, X_train,
                   X_test, y_test, X_test_features, model_results, best_model>>

\* A call that assigns an attribute of the detector.
Counted == calls < MaxCalls /\ calls' = calls + 1

\* The caller fits on a corpus and keeps the matrix with the corpus labels.
DetFit ==
    /\ OnDetector /\ Counted
    /\ \E d \in Datasets :
          /\ PrepareFeatures(d.texts, TRUE)
          /\ IF ret'.exc = ""
             THEN X_train_features' = ret'.features /\ y_train' = d.labels
             ELSE UNCHANGED <<X_train_features, y_train>>

DetTransform ==
    /\ OnDetector
    /\ \E texts \in Queries : PrepareFeatures(texts, FALSE)
    /\ UNCHANGED <<X_train_features, y_train, calls>>

\* The caller trains on the matrix and labels it holds.
DetTrain ==
    /\ OnDetector /\ Counted
    /\ X_train_features # NoValue
    /\ \E name \in ModelNames :
          \E rule \in Learnable(Variant(ModelType(name)), X_train_features, y_train) :
              Train(X_train_features, y_train, name, rule)
    /\ UNCHANGED <<X_train_features, y_train>>

DetPredict ==
    /\ OnDetector
    /\ \E texts \in PredictArgs : Predict(texts)
    /\ UNCHANGED <<X_train_features, y_train, calls>>

DetEvaluate ==
    /\ OnDetector
    /\ X_train_features # NoValue
    /\ Evaluate(X_train_features, y_train)
    /\ UNCHANGED <<X_train_features, y_train, calls>>

NextDetector == DetFit \/ DetTransform \/ DetTrain \/ DetPredict \/ DetEvaluate

SpecDetector == InitDetector /\ [][NextDetector]_vars

(***************************************************************************)
(* Scenario: the script under __main__, with predict calls at any stage    *)
(***************************************************************************)
\* test_size = 0.2, as the fraction test_size_num / test_size_den
test_size_num == 1
test_size_den == 5

\* The elements of s at the positions in I, in the order of s.
RECURSIVE Pick(_, _)
Pick(s, I) ==
    IF s = <<>> THEN <<>>
    ELSE Pick(SubSeq(s, 1, Len(s) - 1), I)
         \o (IF Len(s) \in I THEN <<s[Len(s)]>> ELSE <<>>)

Members(y, c) == {k \in DOMAIN y : y[k] = c}

\* ceil(test_size * n)
TestSize(n) == (test_size_num * n + test_size_den - 1) \div test_size_den

\* Why train_test_split(..., stratify=y) raises, "" when it does not.
SplitError(y) ==
    IF Len(y) = 0 \/ Len(y) - TestSize(Len(y)) = 0 THEN "ValueError"
    ELSE IF \E c \in Range(y) : Cardinality(Members(y, c)) < 2 THEN "ValueError"
    ELSE IF TestSize(Len(y)) < Cardinality(Range(y)) THEN "ValueError"
    ELSE IF Len(y) - TestSize(Len(y)) < Cardinality(Range(y)) THEN "ValueError"
    ELSE ""

\* The test parts a stratified split can give: of the size asked, each class
\* within one of its share.  Which one random_state=42 gives is not computed.
TestParts(y) ==
    {T \in SUBSET DOMAIN y :
        /\ Cardinality(T) = TestSize(Len(y))
        /\ \A c \in Range(y) :
              LET share == TestSize(Len(y)) * Cardinality(Members(y, c))
                  got == Len(y) * Cardinality(T \cap Members(y, c))
              IN  got - share < Len(y) /\ share - got < Len(y)}

Column(frame, name) == [k \in DOMAIN frame |-> frame[k][name]]

\* Line 264: max(model_results, key=model_results.get), the first key on a tie.
BestModel(results) ==
    IF results["naive_bayes"][1] * results["logistic"][2]
           > results["logistic"][1] * results["naive_bayes"][2]
    THEN "naive_bayes" ELSE "logistic"

Row(content, labels) == [content |-> content, labels |-> labels]

\* What combine_datasets returns: distinct rows of a text and a number.  Six
\* rows of two classes and one whose text normalizes to ""; three rows only.
Frames ==
    { << Row(BadCat, One), Row(Bad, One), Row(<<"B", "a", "d">>, One),
         Row(Cat, Zero), Row(Cats, Zero), Row(Teh \o <<" ">> \o Cat, Zero),
         Row(<<"t", "h", "e">>, Zero) >>,
      << Row(Bad, One), Row(Cat, Zero), Row(Cats, Zero) >> }

\* Lines 271-275: test_texts.
test_texts == Batch(<<Bad, Cats, Teh>>)

\* Arguments of the predict calls made on the detector besides line 278.
PipelineArgs ==
    {OneText(Teh \o <<" ">> \o Cat), Batch(<<BadCat, Teh \o <<" ">> \o Cat>>)}

InitPipeline ==
    /\ use_spell_check \in BOOLEAN
    /\ corrector_ok \in (IF use_spell_check THEN BOOLEAN ELSE {TRUE})
    /\ text = NoValue /\ out = NoValue /\ out2 = NoValue
    /\ vectorizer = NoValue
    /\ model = NoValue
    /\ learned = [kind \in Kinds |-> NoValue]
    /\ ret = NoValue
    /\ calls = 0
    /\ IdlePipeline
    /\ pc = "main"
    /\ IdleLoad /\ IdleComb /\ IdleApi

InPipeline == UNCHANGED <<loadVars, apiVars, combVars, normVars>>

\* Line 207: df = combine_datasets(CSV_FILE_PATHS)
PipeLoad ==
    /\ pc = "main"
    /\ main_df' \in Frames
    /\ pc' = "Loaded"
    /\ InPipeline
    /\ UNCHANGED <<detVars, X_train, X_test, y_train, y_test, X_train_features,
                   X_test_features, model_results, best_model>>

Processed(frame) ==
    [k \in DOMAIN frame |->
        [content |-> frame[k].content, labels |-> frame[k].labels,
         processed_text |->
             preprocess_text(PyStr(frame[k].content), use_spell_check, corrector_ok)]]

NonEmptyText(row) == Len(row.processed_text) > 0

PipeNormalize_keep_empty ==
    /\ pc = "Loaded"
    /\ main_df' = Processed(main_df)
    /\ pc' = "Normalized"
    /\ InPipeline
    /\ UNCHANGED <<detVars, X_train, X_test, y_train, y_test, X_train_features,
                   X_test_features, model_results, best_model>>

\* Lines 224-225: the processed_text column, and the rows whose is not empty.
PipeNormalize ==
    /\ pc = "Loaded"
    /\ main_df' = SelectSeq(Processed(main_df), NonEmptyText)
    /\ pc' = "Normalized"
    /\ InPipeline
    /\ UNCHANGED <<detVars, X_train, X_test, y_train, y_test, X_train_features,
                   X_test_features, model_results, best_model>>

\* Lines 229-234: train_test_split
PipeSplit ==
    /\ pc = "Normalized"
    /\ LET y == Column(main_df, "labels")
           X == Column(main_df, "processed_text")
       IN  IF SplitError(y) # ""
           THEN /\ pc' = "failed"
                /\ UNCHANGED <<X_train, X_test, y_train, y_test>>
           ELSE \E T \in TestParts(y) :
                   /\ X_train' = Pick(X, DOMAIN y \ T)
                   /\ y_train' = Pick(y, DOMAIN y \ T)
                   /\ X_test' = Pick(X, T)
                   /\ y_test' = Pick(y, T)
                   /\ pc' = "Split"
    /\ InPipeline
    /\ UNCHANGED <<detVars, main_df, X_train_features, X_test_features,
                   model_results, best_model>>

\* Lines 240-241: fit on the training part, transform the test part; line 246.
PipeFeatures ==
    /\ pc = "Split"
    /\ LET fit == prepare_features(vectorizer, X_train, TRUE)
           test == prepare_features(fit.vectorizer, X_test, FALSE)
       IN  /\ vectorizer' = fit.vectorizer
           /\ IF fit.exc # ""
              THEN /\ ret' = Call("fit", X_train, fit.exc, NoFeatures, NoPrediction, <<0, 0>>)
                   /\ pc' = "failed"
                   /\ UNCHANGED <<X_train_features, X_test_features, model_results>>
              ELSE /\ ret' = Call("transform", X_test, test.exc, test.features,
                                  NoPrediction, <<0, 0>>)
                   /\ X_train_features' = fit.features
                   /\ X_test_features' = test.features
                   /\ model_results' = <<>>
                   /\ pc' = "FeaturesFit"
    /\ calls' = calls + 1
    /\ InPipeline
    /\ UNCHANGED <<model, learned, main_df, X_train, X_test, y_train, y_test, best_model>>

\* The name the for loop of line 248 is at.
model_name == IF "logistic" \in DOMAIN model_results THEN "naive_bayes" ELSE "logistic"

\* A train call of the script: what fit learns is remembered per variant.
ScriptTrain(name) ==
    \E rule \in Learnable(Variant(ModelType(name)), X_train_features, y_train) :
        /\ Train(X_train_features, y_train, name, rule)
        /\ learned' = IF ret'.exc # "" THEN learned
                      ELSE [learned EXCEPT ![Variant(ModelType(name))] =
                                [X |-> X_train_features, y |-> y_train, rule |-> rule]]
        /\ calls' = calls + 1

\* Line 250: detector.train(X_train_features, y_train, model_type=model_name)
PipeTrain ==
    /\ pc \in {"FeaturesFit", "Evaluated"}
    /\ "naive_bayes" \notin DOMAIN model_results
    /\ ScriptTrain(model_name)
    /\ pc' = IF ret'.exc # "" THEN "failed" ELSE "Trained"
    /\ InPipeline
    /\ UNCHANGED <<pipeVars>>

\* Lines 252-256: the accuracy on the test part, kept under the name; evaluate.
PipeEvaluate ==
    /\ pc = "Trained"
    /\ LET predictions == ModelPredict(model, X_test_features)
       IN  IF ModelPredictError(model, X_test_features) # ""
           THEN /\ ret' = Call("evaluate", <<>>, ModelPredictError(model, X_test_features),
                               NoFeatures, NoPrediction, <<0, 0>>)
                /\ pc' = "failed"
                /\ UNCHANGED model_results
           ELSE /\ model_results' =
                       [n \in DOMAIN model_results \cup {model_name} |->
                           IF n = model_name THEN accuracy_score(y_test, predictions)
                           ELSE model_results[n]]
                /\ Evaluate(X_test_features, y_test)
                /\ pc' = IF ret'.exc # "" THEN "failed" ELSE "Evaluated"
    /\ UNCHANGED <<vectorizer, model>>
    /\ InPipeline
    /\ UNCHANGED <<learned, calls, main_df, X_train, X_test, y_train, y_test,
                   X_train_features, X_test_features, best_model>>

PipeSelect_no_retrain ==
    /\ pc = "Evaluated"
    /\ "naive_bayes" \in DOMAIN model_results
    /\ best_model' = BestModel(model_results)
    /\ ret' = Call("train", best_model', "", NoFeatures, NoPrediction, <<0, 0>>)
    /\ pc' = "Ready"
    /\ InPipeline
    /\ UNCHANGED <<vectorizer, model, learned, calls, main_df, X_train, X_test,
                   y_train, y_test, X_train_features, X_test_features, model_results>>

\* Lines 264 and 276: the best name, and detector.train with it.
PipeSelect ==
    /\ pc = "Evaluated"
    /\ "naive_bayes" \in DOMAIN model_results
    /\ best_model' = BestModel(model_results)
    /\ ScriptTrain(best_model')
    /\ pc' = IF ret'.exc # "" THEN "failed" ELSE "Ready"
    /\ InPipeline
    /\ UNCHANGED <<main_df, X_train, X_test, y_train, y_test, X_train_features,
                   X_test_features, model_results>>

\* Line 278 once Ready; at any other stage, a predict call on the detector.
PipePredict ==
    /\ pc \notin {"main", "failed"}
    /\ \E texts \in (IF pc = "Ready" THEN {test_texts} \cup PipelineArgs ELSE PipelineArgs) :
          Predict(texts)
    /\ InPipeline
    /\ UNCHANGED <<learned, calls, pipeVars, pc>>

NextPipeline ==
    \/ PipeLoad \/ PipeNormalize \/ PipeSplit \/ PipeFeatures
    \/ PipeTrain \/ PipeEvaluate \/ PipeSelect \/ PipePredict

SpecPipeline == InitPipeline /\ [][NextPipeline]_vars

(***************************************************************************)
(* The HTTP API of app/routers over the Motor collections of               *)
(* app/database.py.  A handler runs without interruption from one await on *)
(* a collection to the next, so each such await is one step; the awaits of *)
(* get_*_collection never suspend.  A request enters with the find_one of  *)
(* get_current_user, and what its handler holds between steps (the         *)
(* current_user it was given, what it still uses of the document it read)  *)
(* is kept in requests.                                                    *)
(* Timestamps (created_at, updated_at, posted_date), the view counter and  *)
(* the display fields of a document are left out.                          *)
(***************************************************************************)
UserIds == {"u1", "u2"}

ObjectIdPool == <<"a1", "a2", "a3", "a4">>

Malformed == "zz"

IsObjectId(oid) == oid # Malformed

NewObjectId == ObjectIdPool[object_ids + 1]

PathIds == {ObjectIdPool[n] : n \in 1..MaxDocs} \cup {Malformed}

EmptyCollection == [oid \in {} |-> NoValue]

Registered ==
    [u \in UserIds |-> [email |-> u, registration_number |-> u, connections |-> <<>>]]

Contains(list, v) == \E n \in DOMAIN list : list[n] = v

Occurrences(list, v) == Cardinality({n \in DOMAIN list : list[n] = v})

find_one(collection, oid) ==
    IF oid \in DOMAIN collection THEN collection[oid] ELSE NoValue

insert_one(collection, document) == collection @@ (NewObjectId :> document)

Push(collection, oid, field, v) ==
    IF oid \in DOMAIN collection
    THEN [collection EXCEPT ![oid] = [@ EXCEPT ![field] = Append(@, v)]]
    ELSE collection

Pull(collection, oid, field, v) ==
    IF oid \in DOMAIN collection
    THEN [collection EXCEPT ![oid] =
              [@ EXCEPT ![field] = SelectSeq(@, LAMBDA e : e # v)]]
    ELSE collection

Set(collection, oid, update_data) ==
    IF oid \in DOMAIN collection
    THEN [collection EXCEPT ![oid] =
              [f \in DOMAIN @ |-> IF f \in DOMAIN update_data THEN update_data[f] ELSE @[f]]]
    ELSE collection

delete_one(collection, oid) == [o \in DOMAIN collection \ {oid} |-> collection[o]]

dict_exclude_unset(m) == [f \in m.fields_set |-> m[f]]

get_current_user(u) ==
    [_id |-> u, connections |-> users_collection[u].connections]

Request(op, user, oid, body) ==
    [op |-> op, current_user |-> user, id |-> oid, body |-> body,
     pc |-> "handler", doc |-> NoValue]

Accept(op, u, oid, body) ==
    /\ Len(requests) < MaxInFlight
    /\ u \in DOMAIN users_collection
    /\ requests' = Append(requests, Request(op, get_current_user(u), oid, body))
    /\ UNCHANGED <<users_collection, jobs_collection, posts_collection,
                   object_ids, response>>

Without(k) == [n \in 1..(Len(requests) - 1) |-> IF n < k THEN requests[n] ELSE requests[n + 1]]

Respond(k, status_code, body) ==
    /\ requests' = Without(k)
    /\ response' = [request |-> requests[k], status_code |-> status_code, body |-> body]

HTTPException(k, status_code, detail) == Respond(k, status_code, [detail |-> detail])

Await(k, next, document) ==
    /\ requests' = [requests EXCEPT ![k].pc = next, ![k].doc = document]
    /\ UNCHANGED response

InitApi ==
    /\ users_collection = Registered
    /\ jobs_collection = EmptyCollection
    /\ posts_collection = EmptyCollection
    /\ object_ids = 0
    /\ requests = <<>>
    /\ response = [request |-> NoValue, status_code |-> 0, body |-> NoValue]
    /\ IdleLoad /\ IdleComb /\ IdleNorm /\ IdleDetector /\ IdlePipeline

InApi == UNCHANGED <<loadVars, combVars, normVars, detVars, pipeVars, pc>>

(***************************************************************************)
(* app/routers/jobs.py                                                     *)
(***************************************************************************)
JobUpdates ==
    {[fields_set |-> {}, is_active |-> TRUE],
     [fields_set |-> {"is_active"}, is_active |-> FALSE],
     [fields_set |-> {"is_active"}, is_active |-> TRUE]}

ActiveJobs == {oid \in DOMAIN jobs_collection : jobs_collection[oid].is_active}

create_job(k) ==
    LET r == requests[k]
        job_dict == [posted_by |-> r.current_user._id, is_active |-> TRUE,
                     applicants |-> <<>>]
    IN  /\ r.op = "create_job"
        /\ jobs_collection' = insert_one(jobs_collection, job_dict)
        /\ object_ids' = object_ids + 1
        /\ Respond(k, 201, [id |-> NewObjectId, job |-> job_dict])
        /\ UNCHANGED <<users_collection, posts_collection>>

get_jobs(k) ==
    /\ requests[k].op = "get_jobs"
    /\ Respond(k, 200, [jobs |-> ActiveJobs])
    /\ UNCHANGED <<users_collection, jobs_collection, posts_collection, object_ids>>

apply_for_job(k) ==
    LET r == requests[k]
        job == find_one(jobs_collection, r.id)
    IN  /\ r.op = "apply_for_job"
        /\ UNCHANGED <<users_collection, posts_collection, object_ids>>
        /\ IF r.pc = "handler"
           THEN /\ UNCHANGED jobs_collection
                /\ IF ~IsObjectId(r.id)
                   THEN HTTPException(k, 400, "Invalid job ID format")
                   ELSE IF job = NoValue
                   THEN HTTPException(k, 404, "Job not found")
                   ELSE IF ~job.is_active
                   THEN HTTPException(k, 400, "This job posting is no longer active")
                   ELSE IF Contains(job.applicants, r.current_user._id)
                   THEN HTTPException(k, 400, "You have already applied for this job")
                   ELSE Await(k, "update_one", NoValue)
           ELSE /\ jobs_collection' =
                       Push(jobs_collection, r.id, "applicants", r.current_user._id)
                /\ Respond(k, 200, [message |-> "Application submitted successfully"])

update_job(k) ==
    LET r == requests[k]
        job == find_one(jobs_collection, r.id)
        update_data == dict_exclude_unset(r.body)
    IN  /\ r.op = "update_job"
        /\ UNCHANGED <<users_collection, posts_collection, object_ids>>
        /\ IF r.pc = "handler"
           THEN /\ UNCHANGED jobs_collection
                /\ IF ~IsObjectId(r.id)
                   THEN HTTPException(k, 400, "Invalid job ID format")
                   ELSE IF job = NoValue
                   THEN HTTPException(k, 404, "Job not found")
                   ELSE IF job.posted_by # r.current_user._id
                   THEN HTTPException(k, 403, "You don't have permission to update this job")
                   ELSE IF DOMAIN update_data # {}
                   THEN Await(k, "update_one", NoValue)
                   ELSE Respond(k, 200, [id |-> r.id, job |-> job])
           ELSE IF r.pc = "update_one"
           THEN /\ jobs_collection' = Set(jobs_collection, r.id, update_data)
                \* kept for the properties: the document this update_one wrote to
                /\ Await(k, "find_one", job)
           ELSE /\ UNCHANGED jobs_collection
                /\ HTTPException(k, 500, "TypeError")

get_jobs_collection(awaited) == IF awaited THEN "collection" ELSE "coroutine"

delete_job(k) ==
    LET r == requests[k]
        job == find_one(jobs_collection, r.id)
    IN  /\ r.op = "delete_job"
        /\ UNCHANGED <<users_collection, posts_collection, object_ids>>
        /\ IF get_jobs_collection(FALSE) = "coroutine" \/ ~IsObjectId(r.id)
           THEN /\ UNCHANGED jobs_collection
                /\ HTTPException(k, 400, "Invalid job ID format")
           ELSE IF r.pc = "handler"
           THEN /\ UNCHANGED jobs_collection
                /\ IF job = NoValue
                   THEN HTTPException(k, 404, "Job not found")
                   ELSE IF job.posted_by # r.current_user._id
                   THEN HTTPException(k, 403, "You don't have permission to delete this job")
                   ELSE Await(k, "update_one", NoValue)
           ELSE /\ jobs_collection' = Set(jobs_collection, r.id, [f \in {"is_active"} |-> FALSE])
                /\ Respond(k, 200, [message |-> "Job deleted successfully"])

JobsAccept ==
    /\ \E u \in UserIds :
          \/ object_ids + Cardinality({n \in DOMAIN requests : requests[n].op = "create_job"}) < MaxDocs
             /\ Accept("create_job", u, Malformed, NoValue)
          \/ Accept("get_jobs", u, Malformed, NoValue)
          \/ \E oid \in PathIds :
                \/ Accept("apply_for_job", u, oid, NoValue)
                \/ Accept("delete_job", u, oid, NoValue)
                \/ \E job_update \in JobUpdates : Accept("update_job", u, oid, job_update)
    /\ InApi

JobsCreate == (\E k \in DOMAIN requests : create_job(k)) /\ InApi

JobsList == (\E k \in DOMAIN requests : get_jobs(k)) /\ InApi

JobsApply == (\E k \in DOMAIN requests : apply_for_job(k)) /\ InApi

JobsUpdate == (\E k \in DOMAIN requests : update_job(k)) /\ InApi

JobsDelete == (\E k \in DOMAIN requests : delete_job(k)) /\ InApi

InitJobs == InitApi /\ pc = "jobs"

NextJobs ==
    JobsAccept \/ JobsCreate \/ JobsList \/ JobsApply \/ JobsUpdate \/ JobsDelete

SpecJobs == InitJobs /\ [][NextJobs]_vars

(***************************************************************************)
(* app/routers/posts.py                                                    *)
(***************************************************************************)
Contents == {"c1", "c2"}

PostUpdates ==
    {[fields_set |-> {}, content |-> "c1"],
     [fields_set |-> {"content"}, content |-> "c2"]}

create_post(k) ==
    LET r == requests[k]
        post_dict == [author_id |-> r.current_user._id, content |-> r.body,
                      likes |-> <<>>]
    IN  /\ r.op = "create_post"
        /\ posts_collection' = insert_one(posts_collection, post_dict)
        /\ object_ids' = object_ids + 1
        /\ Respond(k, 201, [id |-> NewObjectId, post |-> post_dict])
        /\ UNCHANGED <<users_collection, jobs_collection>>

like_post(k) ==
    LET r == requests[k]
        post == find_one(posts_collection, r.id)
        likes == r.doc.likes
    IN  /\ r.op = "like_post"
        /\ UNCHANGED <<users_collection, jobs_collection, object_ids>>
        /\ IF r.pc = "handler"
           THEN /\ UNCHANGED posts_collection
                /\ IF ~IsObjectId(r.id)
                   THEN HTTPException(k, 400, "Invalid post ID format")
                   ELSE IF post = NoValue
                   THEN HTTPException(k, 404, "Post not found")
                   ELSE Await(k, "update_one", post)
           ELSE IF Contains(likes, r.current_user._id)
           THEN /\ posts_collection' = Pull(posts_collection, r.id, "likes", r.current_user._id)
                /\ Respond(k, 200, [message |-> "Post unliked", likes_count |-> Len(likes) - 1])
           ELSE /\ posts_collection' = Push(posts_collection, r.id, "likes", r.current_user._id)
                /\ Respond(k, 200, [message |-> "Post liked", likes_count |-> Len(likes) + 1])

update_post(k) ==
    LET r == requests[k]
        post == find_one(posts_collection, r.id)
        update_data == dict_exclude_unset(r.body)
    IN  /\ r.op = "update_post"
        /\ UNCHANGED <<users_collection, jobs_collection, object_ids>>
        /\ IF r.pc = "handler"
           THEN /\ UNCHANGED posts_collection
                /\ IF ~IsObjectId(r.id)
                   THEN HTTPException(k, 400, "Invalid post ID format")
                   ELSE IF post = NoValue
                   THEN HTTPException(k, 404, "Post not found")
                   ELSE IF post.author_id # r.current_user._id
                   THEN HTTPException(k, 403, "You don't have permission to update this post")
                   ELSE IF DOMAIN update_data # {}
                   THEN Await(k, "update_one", NoValue)
                   ELSE Respond(k, 200, [id |-> r.id, post |-> post])
           ELSE IF r.pc = "update_one"
           THEN /\ posts_collection' = Set(posts_collection, r.id, update_data)
                /\ Await(k, "find_one", NoValue)
           ELSE /\ UNCHANGED posts_collection
                /\ IF post = NoValue
                   THEN HTTPException(k, 500, "TypeError")
                   ELSE Respond(k, 200, [id |-> r.id, post |-> post])

delete_post_any_user(k) ==
    LET r == requests[k]
        post == find_one(posts_collection, r.id)
    IN  /\ r.op = "delete_post"
        /\ UNCHANGED <<users_collection, jobs_collection, object_ids>>
        /\ IF r.pc = "handler"
           THEN /\ UNCHANGED posts_collection
                /\ IF ~IsObjectId(r.id)
                   THEN HTTPException(k, 400, "Invalid post ID format")
                   ELSE IF post = NoValue
                   THEN HTTPException(k, 404, "Post not found")
                   ELSE Await(k, "delete_one", NoValue)
           ELSE /\ posts_collection' = delete_one(posts_collection, r.id)
                /\ Respond(k, 200, [message |-> "Post deleted successfully"])

delete_post(k) ==
    LET r == requests[k]
        post == find_one(posts_collection, r.id)
    IN  /\ r.op = "delete_post"
        /\ UNCHANGED <<users_collection, jobs_collection, object_ids>>
        /\ IF r.pc = "handler"
           THEN /\ UNCHANGED posts_collection
                /\ IF ~IsObjectId(r.id)
                   THEN HTTPException(k, 400, "Invalid post ID format")
                   ELSE IF post = NoValue
                   THEN HTTPException(k, 404, "Post not found")
                   ELSE IF post.author_id # r.current_user._id
                   THEN HTTPException(k, 403, "You don't have permission to delete this post")
                   ELSE Await(k, "delete_one", NoValue)
           ELSE /\ posts_collection' = delete_one(posts_collection, r.id)
                /\ Respond(k, 200, [message |-> "Post deleted successfully"])

PostsAccept ==
    /\ \E u \in UserIds :
          \/ object_ids + Cardinality({n \in DOMAIN requests : requests[n].op = "create_post"}) < MaxDocs
             /\ Accept("create_post", u, Malformed, "c1")
          \/ \E oid \in PathIds :
                \/ Accept("like_post", u, oid, NoValue)
                \/ Accept("delete_post", u, oid, NoValue)
                \/ \E post_update \in PostUpdates : Accept("update_post", u, oid, post_update)
    /\ InApi

PostsCreate == (\E k \in DOMAIN requests : create_post(k)) /\ InApi

PostsLike == (\E k \in DOMAIN requests : like_post(k)) /\ InApi

PostsUpdate == (\E k \in DOMAIN requests : update_post(k)) /\ InApi

PostsDelete == (\E k \in DOMAIN requests : delete_post(k)) /\ InApi

InitPosts == InitApi /\ pc = "posts"

NextPosts == PostsAccept \/ PostsCreate \/ PostsLike \/ PostsUpdate \/ PostsDelete

SpecPosts == InitPosts /\ [][NextPosts]_vars

(***************************************************************************)
(* app/routers/users.py: connect_with_user and disconnect_user             *)
(***************************************************************************)
UserPathIds == UserIds \cup {ObjectIdPool[1], Malformed}

connect_with_user(k) ==
    LET r == requests[k]
        target_user == find_one(users_collection, r.id)
        current_connections == r.current_user.connections
    IN  /\ r.op = "connect_with_user"
        /\ UNCHANGED <<jobs_collection, posts_collection, object_ids>>
        /\ IF r.pc = "handler"
           THEN /\ UNCHANGED users_collection
                /\ IF r.id = r.current_user._id
                   THEN HTTPException(k, 400, "Cannot connect with yourself")
                   ELSE IF ~IsObjectId(r.id)
                   THEN HTTPException(k, 400, "Invalid user ID format")
                   ELSE IF target_user = NoValue
                   THEN HTTPException(k, 404, "User not found")
                   ELSE IF Contains(current_connections, r.id)
                   THEN HTTPException(k, 400, "Already connected with this user")
                   ELSE Await(k, "update_one", NoValue)
           ELSE IF r.pc = "update_one"
           THEN /\ users_collection' =
                       Push(users_collection, r.current_user._id, "connections", r.id)
                /\ Await(k, "update_one target", NoValue)
           ELSE /\ users_collection' =
                       Push(users_collection, r.id, "connections", r.current_user._id)
                /\ Respond(k, 200, [message |-> "Connected successfully"])

disconnect_user(k) ==
    LET r == requests[k]
        current_connections == r.current_user.connections
    IN  /\ r.op = "disconnect_user"
        /\ UNCHANGED <<jobs_collection, posts_collection, object_ids>>
        /\ IF r.pc = "handler"
           THEN IF ~Contains(current_connections, r.id)
                THEN /\ UNCHANGED users_collection
                     /\ HTTPException(k, 400, "Not connected with this user")
                ELSE /\ users_collection' =
                            Pull(users_collection, r.current_user._id, "connections", r.id)
                     /\ Await(k, "update_one target", NoValue)
           ELSE /\ users_collection' =
                       Pull(users_collection, r.id, "connections", r.current_user._id)
                /\ Respond(k, 200, [message |-> "Disconnected successfully"])

UsersAccept ==
    /\ \E u \in UserIds : \E oid \in UserPathIds :
          \/ Accept("connect_with_user", u, oid, NoValue)
          \/ Accept("disconnect_user", u, oid, NoValue)
    /\ InApi

UsersConnect == (\E k \in DOMAIN requests : connect_with_user(k)) /\ InApi

UsersDisconnect == (\E k \in DOMAIN requests : disconnect_user(k)) /\ InApi

InitUsers == InitApi /\ pc = "users"

NextUsers == UsersAccept \/ UsersConnect \/ UsersDisconnect

SpecUsers == InitUsers /\ [][NextUsers]_vars

(***************************************************************************)
(* app/routers/auth.py: register                                           *)
(***************************************************************************)
Emails == {"e1", "e2"}

RegistrationNumbers == {"r1", "r2"}

RegisterForms == [email : Emails, registration_number : RegistrationNumbers]

ExistingUser(form) ==
    \E oid \in DOMAIN users_collection :
        \/ users_collection[oid].email = form.email
        \/ users_collection[oid].registration_number = form.registration_number

register(k) ==
    LET r == requests[k]
        user_dict == [email |-> r.body.email,
                      registration_number |-> r.body.registration_number,
                      connections |-> <<>>]
    IN  /\ r.op = "register"
        /\ UNCHANGED <<jobs_collection, posts_collection>>
        /\ IF r.pc = "handler"
           THEN /\ UNCHANGED <<users_collection, object_ids>>
                /\ IF ExistingUser(r.body)
                   THEN HTTPException(k, 400, "User with this email or registration number already exists")
                   ELSE Await(k, "insert_one", NoValue)
           ELSE /\ users_collection' = insert_one(users_collection, user_dict)
                /\ object_ids' = object_ids + 1
                /\ Respond(k, 201, [id |-> NewObjectId, user |-> user_dict])

AuthAccept ==
    /\ Len(requests) < MaxInFlight
    /\ object_ids + Cardinality({n \in DOMAIN requests : requests[n].pc = "insert_one"}) < MaxUsers
    /\ \E form \in RegisterForms :
          requests' = Append(requests, Request("register", NoValue, Malformed, form))
    /\ UNCHANGED <<users_collection, jobs_collection, posts_collection,
                   object_ids, response>>
    /\ InApi

AuthRegister == (\E k \in DOMAIN requests : register(k)) /\ InApi

InitAuth ==
    /\ users_collection = EmptyCollection
    /\ jobs_collection = EmptyCollection
    /\ posts_collection = EmptyCollection
    /\ object_ids = 0
    /\ requests = <<>>
    /\ response = [request |-> NoValue, status_code |-> 0, body |-> NoValue]
    /\ IdleLoad /\ IdleComb /\ IdleNorm /\ IdleDetector /\ IdlePipeline
    /\ pc = "auth"

NextAuth == AuthAccept \/ AuthRegister

SpecAuth == InitAuth /\ [][NextAuth]_vars

(***************************************************************************)
(* Properties of load_dataset                                              *)
(***************************************************************************)
Loaded == pc = "loaded"

Kept(k) == \E r \in Range(loadRes.df) : r.idx = k

\* C1: every record load_dataset returns has a label that is exactly 0 or 1;
\* a row whose label is not numeric, or numeric but neither 0 nor 1, is absent.
C1_LabelIsBinary ==
    Loaded /\ loadRes.ok => \A r \in Range(loadRes.df) : r.labels \in {Zero, One}

\* C2: a row with raw label "1" or "1.0" (1 and 1.0 as a CSV field) and content
\* present is kept with label 1; a row with raw label "Label", "yes" or "" is
\* dropped, so never kept with label 0; a row with missing content is dropped.
C2_LabelCoercion ==
    Loaded /\ file.kind = "table" /\ file.header = {"text", "label"} =>
        /\ loadRes.ok
        /\ \A k \in DOMAIN file.rows :
            LET raw == file.rows[k]
            IN  /\ raw.label \in {<<"1">>, <<"1", ".", "0">>}
                   /\ raw.text \notin {<<>>, <<"N", "A">>}
                   => \E r \in Range(loadRes.df) :
                        r.idx = k /\ r.labels = One /\ r.content = raw.text
                /\ raw.label \in {Str_Label, <<"y", "e", "s">>, <<>>} => ~Kept(k)
                /\ raw.text \in {<<>>, <<"N", "A">>} => ~Kept(k)

C2_Witness ==
    /\ Loaded /\ file.kind = "table" /\ file.header = {"text", "label"}
    /\ Len(file.rows) = 2
    /\ file.rows[1].label = <<"y", "e", "s">> /\ file.rows[1].text = <<"o", "k">>
    /\ file.rows[2].label = <<"1", ".", "0">> /\ file.rows[2].text = <<"b", "a", "d">>
    /\ loadRes.ok /\ Len(loadRes.df) = 1 /\ loadRes.df[1].labels = One

\* The first name of the priority list that the header holds.
FirstPresent(aliases, header) ==
    aliases[CHOOSE k \in DOMAIN aliases :
                /\ aliases[k] \in header
                /\ \A j \in 1..(k - 1) : aliases[j] \notin header]

HasAlias(aliases, header) == \E k \in DOMAIN aliases : aliases[k] \in header

HasTextColumn(header) == header \cap {"Content", "text", "Text", "content"} # {}
HasLabelColumn(header) ==
    header \cap {"Label", "is_offensive", "label", "hate_speech", "labels"} # {}

\* C6: when the content column or the label column is absent after the alias
\* mapping, load_dataset raises the schema error and returns no records.
C6_SchemaError ==
    Loaded /\ file.kind = "table"
      /\ (~HasTextColumn(file.header) \/ ~HasLabelColumn(file.header)) =>
        ~loadRes.ok /\ loadRes.exc = "ValueError" /\ loadRes.df = <<>>

C6_Witness ==
    /\ Loaded /\ file.kind = "table"
    /\ HasTextColumn(file.header) /\ ~HasLabelColumn(file.header)
    /\ Len(file.rows) = 1
    /\ ~loadRes.ok /\ loadRes.exc = "ValueError"

\* C7: a missing path is reported as the not-found error, every other read
\* failure as a LoadError wrapping the original failure, so that the kinds
\* (and the schema error) are told apart.
C7_ErrorKinds ==
    Loaded /\ file.kind # "table" =>
        /\ ~loadRes.ok
        /\ file.kind = "missing" => loadRes.exc = "FileNotFoundError"
        /\ file.kind # "missing" =>
            /\ loadRes.exc = "LoadError"
            /\ loadRes.cause = ReadError(file.kind)
            /\ ~IsInstance(loadRes.exc, "ValueError")

(***************************************************************************)
(* Properties of combine_datasets                                          *)
(***************************************************************************)
Done == pc = "done"

\* A source loads when it is a table with a text and a label column.
Loads(f) == f.kind = "table" /\ HasTextColumn(f.header) /\ HasLabelColumn(f.header)

Sources == {k \in DOMAIN csv_paths : Loads(fs[csv_paths[k]])}

\* Contents of the rows load_dataset keeps of a source table with 0/1 labels.
SourceContents(f) == {f.rows[k].text : k \in DOMAIN f.rows}

\* C4: a source whose load fails is skipped and the corpus is built from the
\* sources that loaded; the call fails, with the empty-corpus error, exactly
\* when no source loaded.
C4_SkipFailedSources ==
    Done =>
        /\ combRes.ok <=> Sources # {}
        /\ ~combRes.ok =>
            /\ combRes.exc = "ValueError"
            /\ combRes.log = "No datasets were successfully loaded!"
        /\ combRes.ok =>
            {r.content : r \in Range(combRes.df)}
                = UNION {SourceContents(fs[csv_paths[k]]) : k \in Sources}

C4_Witness ==
    /\ Done /\ combRes.ok /\ combRes.df # <<>>
    /\ Len(csv_paths) = 2 /\ ~Loads(fs[csv_paths[1]]) /\ Loads(fs[csv_paths[2]])
    /\ warnings = <<csv_paths[1]>>

\* Position (k, j): row j of the k-th loaded frame; concatenation order.
Positions ==
    UNION {{<<k, j>> : j \in DOMAIN all_datasets[k]} : k \in DOMAIN all_datasets}

Before(p, q) == p[1] < q[1] \/ (p[1] = q[1] /\ p[2] < q[2])

RowAt(p) == all_datasets[p[1]][p[2]]

\* The first position, in concatenation order, that holds this content.
FirstOf(content) ==
    CHOOSE p \in Positions :
        /\ RowAt(p).content = content
        /\ \A q \in Positions : RowAt(q).content = content => ~Before(q, p)

\* C5: the corpus holds no content twice; each content of a loaded record
\* survives once, with the label of its first record in concatenation order,
\* and the survivors keep their relative order.
C5_DedupKeepsFirst ==
    Done /\ combRes.ok =>
        LET df == combRes.df
        IN  /\ \A a, b \in DOMAIN df : a # b => df[a].content # df[b].content
            /\ \A p \in Positions : \E a \in DOMAIN df : df[a].content = RowAt(p).content
            /\ \A a \in DOMAIN df :
                /\ \E p \in Positions : RowAt(p).content = df[a].content
                /\ df[a].labels = RowAt(FirstOf(df[a].content)).labels
            /\ \A a, b \in DOMAIN df :
                a < b => Before(FirstOf(df[a].content), FirstOf(df[b].content))

C5_Witness ==
    /\ Done /\ combRes.ok
    /\ Len(all_datasets) = 2
    /\ Len(all_datasets[1]) = 2 /\ Len(all_datasets[2]) = 2
    /\ all_datasets[1][1].content = <<"y">>
    /\ all_datasets[1][2].content = <<"x">> /\ all_datasets[1][2].labels = Zero
    /\ all_datasets[2][1].content = <<"x">> /\ all_datasets[2][1].labels = One
    /\ all_datasets[2][2].content = <<"y">>
    /\ Len(combRes.df) = 2
    /\ combRes.df[2].content = <<"x">> /\ combRes.df[2].labels = Zero

(***************************************************************************)
(* Properties of preprocess_text                                           *)
(***************************************************************************)
\* C8: preprocess_text applied to its own output returns that output.
C8_Idempotent == pc = "renormalized" => out2 = out

HasRunOfThree(s) ==
    \E k \in 1..(Len(s) - 2) : s[k] = s[k + 1] /\ s[k] = s[k + 2]

Suffix(s, k) == SubSeq(s, k, Len(s))

\* C9: the output holds no URL, mention or hashtag, no digit, no run of three
\* identical characters, and only words of more than 2 characters, separated
\* by single spaces.
C9_OutputIsClean ==
    pc # "norm" =>
        /\ \A k \in DOMAIN out :
            /\ ~UrlAt(Suffix(out, k))
            /\ out[k] \notin {"@", "#"}
            /\ ~IsDigit(out[k])
        /\ ~HasRunOfThree(out)
        /\ \A k \in DOMAIN Split(out) : Len(Split(out)[k]) > 2
        /\ out = Join(Split(out))

\* C10: preprocess_text of None (or of a missing value) returns the empty string.
C10_MissingGivesEmpty == pc # "norm" /\ text.na => out = <<>>

C10_Witness == pc = "normalized" /\ text = PyNone /\ out = <<>>

\* C11: when the corrector raises, correct_spelling returns its input, and
\* preprocess_text returns what it returns for the uncorrected text (the
\* result of the same steps with the correction step left out).
C11_CorrectorFailureIsSilent ==
    pc # "norm" /\ use_spell_check /\ ~corrector_ok =>
        /\ correct_spelling(text.repr, corrector_ok) = text.repr
        /\ out = preprocess_text(text, FALSE, TRUE)

C11_Witness ==
    /\ pc = "normalized" /\ use_spell_check /\ ~corrector_ok
    /\ text = PyStr(<<"t", "e", "h">>)
    /\ TextBlobCorrect(text.repr) # text.repr
    /\ out = <<"t", "e", "h">>

(***************************************************************************)
(* Properties of the detector                                              *)
(***************************************************************************)
OnCall(op) == pc = "detector" /\ ret # NoValue /\ ret.op = op

IsFitted == vectorizer # NoValue /\ vectorizer.fitted

\* The classifier was fitted on a matrix as wide as the vectorizer's vocabulary.
IsTrained ==
    /\ IsFitted /\ model # NoValue /\ model.fitted
    /\ model.n_features_in = Cardinality(vectorizer.vocabulary)

\* C13: on a detector never fitted nor trained, transform and predict fail
\* with NotFittedError and return nothing; so does predict on a detector
\* whose vectorizer is fitted while train was never called.
C13_NotFittedError ==
    /\ (OnCall("transform") \/ OnCall("predict")) /\ vectorizer = NoValue /\ model = NoValue
           => /\ ret.exc = "NotFittedError"
              /\ ret.features = NoFeatures /\ ret.prediction.predictions = <<>>
    /\ OnCall("predict") /\ IsFitted /\ model = NoValue
           => ret.exc = "NotFittedError" /\ ret.prediction.predictions = <<>>

\* The terms of a processed text, none of them in the vocabulary.
Unknown(doc) == Range(Ngrams(doc)) \cap vectorizer.vocabulary = {}

\* C15: once the vectorizer is fitted, transform never raises and gives one
\* row per text over exactly the fitted vocabulary, all zero for a text none
\* of whose terms is in the vocabulary (the empty text included); predict on
\* a detector trained on that vocabulary's width gives such a text a label.
C15_UnknownTermsGiveZeroVector ==
    /\ OnCall("transform") /\ IsFitted =>
          /\ ret.exc = ""
          /\ Len(ret.features.rows) = Len(ret.arg)
          /\ \A k \in DOMAIN ret.arg :
                /\ DOMAIN ret.features.rows[k] = vectorizer.vocabulary
                /\ Unknown(ret.arg[k]) =>
                      \A t \in vectorizer.vocabulary : ret.features.rows[k][t] = 0
    /\ OnCall("predict") /\ IsTrained =>
          \A k \in DOMAIN ret.prediction.processed_texts :
              Unknown(ret.prediction.processed_texts[k]) =>
                  /\ ret.exc = ""
                  /\ ret.prediction.predictions[k] \in model.classes

C15_Witness ==
    /\ OnCall("predict") /\ IsTrained /\ ret.exc = ""
    /\ ret.arg = Batch(<<Teh, Bad>>)
    /\ ret.prediction.processed_texts = <<<<>>, Bad>>
    /\ vectorizer.vocabulary = {Cat}
    /\ ret.prediction.predictions[1] \in {Zero, One}

\* C16: a step that is not a prepare_features(fit=True) call leaves a fitted
\* vectorizer, its vocabulary and idf, as it was.
C16_VectorizerFrozen ==
    [][pc = "detector" /\ IsFitted /\ ret'.op # "fit" => vectorizer' = vectorizer]_vars

C16_Witness ==
    /\ OnCall("predict") /\ ret.exc = "" /\ IsFitted
    /\ vectorizer.vocabulary = {Bad} /\ model.kind = "naive_bayes" /\ calls = 3

\* C17: a predict call that returns labels returns probabilities with them,
\* both variants being probability-capable.
C17_ProbabilityReturned ==
    OnCall("predict") /\ ret.exc = "" =>
        /\ model.kind \in Kinds
        /\ ret.prediction.probabilities # PyNoneValue

\* C18: on a trained detector predict gives a single string the result of the
\* one-element list, and a list of n texts n labels in {0, 1}, the label at
\* position i classifying the normalized text at position i.
C18_PredictShape ==
    OnCall("predict") /\ IsTrained =>
        /\ ret.exc = ""
        /\ ret.arg.is_str =>
              ret.prediction = predict(vectorizer, model, Batch(<<ret.arg.str>>),
                                       use_spell_check, corrector_ok)
        /\ ~ret.arg.is_str =>
              /\ Len(ret.prediction.predictions) = Len(ret.arg.items)
              /\ \A k \in DOMAIN ret.arg.items :
                    /\ ret.prediction.predictions[k] \in {Zero, One}
                    /\ <<ret.prediction.predictions[k]>> =
                           predict(vectorizer, model, OneText(ret.arg.items[k].repr),
                                   use_spell_check, corrector_ok).predictions

\* C19: train ends with the variant named by model_type as the model, with
\* logistic when no name or an unrecognized name is passed, and raises for
\* such a name only what it raises for 'logistic'.
C19_VariantByName ==
    OnCall("train") =>
        /\ model # NoValue
        /\ model.kind = (IF ret.arg \in {"logistic", "naive_bayes"} THEN ret.arg
                         ELSE "logistic")
        /\ ret.arg \notin {"logistic", "naive_bayes"} =>
              ret.exc = ModelFitError("logistic", X_train_features, y_train)

C19_Witness ==
    /\ OnCall("train") /\ ret.arg = "svm" /\ ret.exc = ""
    /\ model.kind = "logistic" /\ model.fitted

(***************************************************************************)
(* Properties of the script                                                *)
(***************************************************************************)
IsNormalized == pc \notin {"main", "Loaded"}

PredictCalled == ret # NoValue /\ ret.op = "predict"

TehCat == Teh \o <<" ">> \o Cat

C14_PredictOnlyWhenReady ==
    PredictCalled /\ pc \in {"Loaded", "Normalized", "Split", "FeaturesFit",
                             "Trained", "Evaluated"}
        => ret.exc # "" /\ ret.prediction.predictions = <<>>

\* a / b >= c / d for accuracies <<a, b>> and <<c, d>>
AtLeast(p, q) == p[1] * q[2] >= q[1] * p[2]

\* C20: once Ready, both variants were trained on the same features and
\* labels and evaluated, the name selected has the highest accuracy, and the
\* detector's model is that variant, scoring that accuracy on the test part.
C20_BestVariantActive ==
    pc = "Ready" =>
        /\ DOMAIN model_results = {"logistic", "naive_bayes"}
        /\ \A n \in DOMAIN model_results :
              /\ learned[n].X = X_train_features /\ learned[n].y = y_train
              /\ AtLeast(model_results[best_model], model_results[n])
        /\ model.fitted /\ model.kind = best_model
        /\ accuracy_score(y_test, ModelPredict(model, X_test_features))
               = model_results[best_model]

C20_Witness ==
    /\ pc = "Ready" /\ PredictCalled /\ ret.exc = "" /\ ret.arg = test_texts
    /\ best_model = "logistic" /\ model.kind = "logistic"
    /\ ~AtLeast(model_results["naive_bayes"], model_results["logistic"])

C22_ClassifierBoundToVectorizer ==
    OnCall("predict") /\ ret.exc = "" =>
        model.on = [vocabulary |-> vectorizer.vocabulary, idf |-> vectorizer.idf]

\* C23: from normalization on every row of the corpus has a non-empty
\* processed_text and is a row of the loaded frame with its own label, in
\* the frame's order; the two parts of the split are rows of that corpus,
\* text and label at the same position.
C23_NoEmptyRowsAligned ==
    /\ IsNormalized =>
          /\ \A k \in DOMAIN main_df : main_df[k].processed_text # <<>>
          /\ \E f \in Frames :
                /\ [k \in DOMAIN main_df |-> Row(main_df[k].content, main_df[k].labels)]
                       = SelectSeq(f, LAMBDA r : preprocess_text(PyStr(r.content),
                                       use_spell_check, corrector_ok) # <<>>)
                /\ \A k \in DOMAIN main_df :
                      main_df[k].processed_text =
                          preprocess_text(PyStr(main_df[k].content),
                                          use_spell_check, corrector_ok)
    /\ pc \in {"Split", "FeaturesFit", "Trained", "Evaluated", "Ready"} =>
          \E T \in SUBSET DOMAIN main_df :
              /\ X_test = Pick(Column(main_df, "processed_text"), T)
              /\ y_test = Pick(Column(main_df, "labels"), T)
              /\ X_train = Pick(Column(main_df, "processed_text"), DOMAIN main_df \ T)
              /\ y_train = Pick(Column(main_df, "labels"), DOMAIN main_df \ T)
              /\ \A k \in DOMAIN X_train : X_train[k] # <<>>

C23_Witness ==
    /\ pc = "Trained" /\ Len(main_df) = 6 /\ Len(X_train) = 4 /\ Len(y_train) = 4
    /\ \A k \in DOMAIN main_df : main_df[k].content # <<"t", "h", "e">>
    /\ ~use_spell_check
    /\ \E k \in DOMAIN X_train : X_train[k] = TehCat /\ y_train[k] = Zero

(***************************************************************************)
(* Properties of the job routes                                            *)
(***************************************************************************)
Answered(op) == response.status_code # 0 /\ response.request.op = op

ByPoster(r) ==
    /\ r.id \in DOMAIN jobs_collection
    /\ jobs_collection[r.id].posted_by = r.current_user._id

\* C24: a delete_job request from the user who posted an existing job is
\* answered with success and leaves the job stored with is_active false, so
\* that get_jobs no longer lists it.
C24_DeleteDeactivates ==
    Answered("delete_job") /\ ByPoster(response.request) =>
        /\ response.status_code = 200
        /\ ~jobs_collection[response.request.id].is_active
        /\ response.request.id \notin ActiveJobs

Written(r) == Set(r.id :> r.doc, r.id, dict_exclude_unset(r.body))[r.id]

ChangedJob(r) == r.doc # NoValue /\ Written(r) # r.doc

\* C27: an update_job request answered with an error (400, 403, 404 or an
\* unhandled failure, 500) has not changed the stored job; a request whose
\* update changed the stored job is answered with the updated job.
C27_ErrorsLeaveJobUnchanged ==
    Answered("update_job") =>
        /\ response.status_code >= 400 => ~ChangedJob(response.request)
        /\ ChangedJob(response.request) =>
              /\ response.status_code = 200
              /\ response.body.job = Written(response.request)

AppliedOnce ==
    \A oid \in DOMAIN jobs_collection : \A u \in UserIds :
        Occurrences(jobs_collection[oid].applicants, u) <= 1

AppliedWhileActive ==
    \A oid \in DOMAIN jobs_collection :
        oid \in DOMAIN jobs_collection'
        /\ jobs_collection'[oid].applicants # jobs_collection[oid].applicants
            => /\ jobs_collection[oid].is_active
               /\ \E u \in UserIds :
                     /\ ~Contains(jobs_collection[oid].applicants, u)
                     /\ jobs_collection'[oid].applicants =
                            Append(jobs_collection[oid].applicants, u)

\* C28: under every interleaving of requests no user occurs twice in a
\* job's applicants, and a step changes the applicants of a job only by
\* adding a user who was not in the list, while the job is active.
C28_ApplicantsOnceWhileActive == []AppliedOnce /\ [][AppliedWhileActive]_vars

(***************************************************************************)
(* Properties of the post routes                                           *)
(***************************************************************************)
LikedOnce ==
    \A oid \in DOMAIN posts_collection : \A u \in UserIds :
        Occurrences(posts_collection[oid].likes, u) <= 1

\* C25: under every interleaving of like_post requests no user occurs twice
\* in a post's likes, and the likes_count a like_post request returns is the
\* number of likes stored when it is answered.
C25_LikesOnceAndCounted ==
    /\ LikedOnce
    /\ Answered("like_post") /\ response.status_code = 200
       /\ response.request.id \in DOMAIN posts_collection
          => response.body.likes_count = Len(posts_collection[response.request.id].likes)

NotAuthor(r) ==
    /\ r.id \in DOMAIN posts_collection
    /\ posts_collection[r.id].author_id # r.current_user._id

Rejected(r, status_code) ==
    /\ response'.request = r /\ response'.status_code = status_code
    /\ posts_collection' = posts_collection

\* C30: a step of an update_post or delete_post request of a user who is
\* not the author of the stored post answers 403 and changes no post; the
\* first step of such a request for an id that no post has answers 404 and
\* changes no post.
C30_OnlyAuthorChangesPost ==
    [][\A k \in DOMAIN requests :
          update_post(k) \/ delete_post(k) =>
              /\ NotAuthor(requests[k]) => Rejected(requests[k], 403)
              /\ IsObjectId(requests[k].id) /\ requests[k].pc = "handler"
                 /\ requests[k].id \notin DOMAIN posts_collection
                    => Rejected(requests[k], 404)]_vars

C30_Witness ==
    /\ Answered("delete_post") /\ response.status_code = 403
    /\ NotAuthor(response.request)
    /\ posts_collection[response.request.id].content = "c2"

(***************************************************************************)
(* Properties of the user routes                                           *)
(***************************************************************************)
Connected(a, b) == Contains(users_collection[a].connections, b)

Symmetric == \A a, b \in DOMAIN users_collection : Connected(a, b) <=> Connected(b, a)

DuplicateFree ==
    \A a, b \in DOMAIN users_collection :
        Occurrences(users_collection[a].connections, b) <= 1

\* C26: whenever no connect_with_user or disconnect_user request is in
\* flight, connections are symmetric, hold no id twice and connect no user
\* to themselves.
C26_ConnectionsSymmetric ==
    requests = <<>> =>
        /\ Symmetric
        /\ DuplicateFree
        /\ \A a \in DOMAIN users_collection : ~Connected(a, a)

UniqueUsers ==
    \A a, b \in DOMAIN users_collection :
        a # b => /\ users_collection[a].email # users_collection[b].email
                 /\ users_collection[a].registration_number #
                        users_collection[b].registration_number

InsertsOnlyNew ==
    \A k \in DOMAIN requests :
        register(k) =>
            IF ExistingUser(requests[k].body)
            THEN /\ users_collection' = users_collection
                 /\ response'.request = requests[k] /\ response'.status_code = 400
            ELSE requests[k].pc = "insert_one" => users_collection' # users_collection

\* C29: under every interleaving of register requests no two stored users
\* share an email or a registration number, and a register step inserts
\* nothing and answers 400 when a stored user has the same email or the same
\* registration number.
C29_UniqueEmailAndNumber == []UniqueUsers /\ [][InsertsOnlyNew]_vars

====
